---- MODULE Spec2Model ----
(***************************************************************************)
(* A model of swarmbot's orchestration core: the whiteboard (MemoryMap),   *)
(* the embedded long-term store (EmbeddedQMD), the state-machine executor  *)
(* (StateMachine.run), the concurrent architecture's worker pool, the      *)
(* four-phase chat pipeline of SwarmManager, the short-term log store      *)
(* (LocalMDStore) and the agent slots of a session.                        *)
(*                                                                         *)
(* Text is modelled as a sequence of tokens (Python str concatenation is   *)
(* \o).  Whiteboard values are tagged records of one shape, so that values *)
(* of different Python types can be compared.                              *)
(***************************************************************************)
EXTENDS Integers, Sequences, FiniteSets, TLC

VARIABLES
    data,          \* MemoryMap._data of a stand-alone whiteboard
    wbLast,        \* the last MemoryMap call made on it
    smv,           \* StateMachine.run: the executor's state
    qmd,           \* EmbeddedQMD: the sqlite file (collections, documents)
    qmdLast,       \* the last EmbeddedQMD call and what it returned
    conc,          \* _chat_concurrent: the worker pool's state
    mgr,           \* SwarmManager: sessions, files on disk, the chat call in progress
    lfs,           \* LocalMDStore: one file and the processes working on it
    slots,         \* SwarmSession.agents of a stand-alone session
    workspace,     \* the long-term store under WORKSPACE_PATH and the sessions using it
    htg,           \* HierarchicalTaskGraph: tasks, and the execute call in progress
    mix,           \* _chat_mixture: the call in progress
    ckp            \* one session's whiteboard and its checkpoint file across processes

vars == <<data, wbLast, smv, qmd, qmdLast, conc, mgr, lfs, slots, workspace, htg, mix, ckp>>

(***************************************************************************)
(* Values held by the whiteboard (JSON-like), all of one record shape.     *)
(***************************************************************************)
IntV(i)  == [kind |-> "int",  n |-> i, s |-> "",  l |-> <<>>, m |-> {}, t |-> <<>>]
StrV(x)  == [kind |-> "str",  n |-> 0, s |-> x,   l |-> <<>>, m |-> {}, t |-> <<>>]
ListV(q) == [kind |-> "list", n |-> 0, s |-> "",  l |-> q,    m |-> {}, t |-> <<>>]
MapV(ks) == [kind |-> "map",  n |-> 0, s |-> "",  l |-> <<>>, m |-> ks, t |-> <<>>]
\* a str held as text (a sequence of tokens)
TextV(x) == [kind |-> "str",  n |-> 0, s |-> "",  l |-> <<>>, m |-> {}, t |-> x]

\* dict helpers: a Python dict is a function on its key set
DictSet(d, k, v) == [x \in (DOMAIN d) \cup {k} |-> IF x = k THEN v ELSE d[x]]
DictRestrict(d, ks) == [x \in (DOMAIN d) \cap ks |-> d[x]]
EmptyDict == [x \in {} |-> IntV(0)]

(***************************************************************************)
(* MemoryMap (src/swarmbot/memory/qmd.py)                                  *)
(***************************************************************************)
core_defaults ==
    [task_specification   |-> MapV({}),
     execution_plan       |-> MapV({}),
     current_state        |-> StrV("INIT"),
     loop_counter         |-> IntV(0),
     completed_subtasks   |-> ListV(<<>>),
     pending_subtasks     |-> ListV(<<>>),
     intermediate_results |-> MapV({}),
     content_registry     |-> ListV(<<>>),
     checkpoint_data      |-> MapV({}),
     qmd_candidates       |-> ListV(<<>>)]

\* the key set of clear(preserve_core=True): qmd_candidates is not in it
core_keys ==
    {"task_specification", "execution_plan", "current_state", "loop_counter",
     "completed_subtasks", "pending_subtasks", "intermediate_results",
     "content_registry", "checkpoint_data"}

\* fills in every missing core-frame key with (a copy of) its default
ensure_task_frame(d) ==
    [k \in (DOMAIN d) \cup (DOMAIN core_defaults) |->
        IF k \in DOMAIN d THEN d[k] ELSE core_defaults[k]]

MemoryMap_update(d, key, value) == DictSet(d, key, value)

MemoryMap_get(d, key) == IF key \in DOMAIN d THEN d[key] ELSE IntV(0)

\* a plausible slip: the transient keys are not dropped
MemoryMap_clear_keepAll(d, preserve_core) ==
    IF ~preserve_core
    THEN ensure_task_frame(EmptyDict)
    ELSE ensure_task_frame(d)

\* lines 57-86
MemoryMap_clear(d, preserve_core) ==
    IF ~preserve_core
    THEN ensure_task_frame(EmptyDict)
    ELSE ensure_task_frame(DictRestrict(d, core_keys))

MemoryMap_init == ensure_task_frame(EmptyDict)

\* a variable a specification does not use stays at Idle
Idle == [pc |-> "idle"]

(***************************************************************************)
(* SpecWB: a stand-alone whiteboard under any sequence of update / clear / *)
(* ensure_task_frame calls.                                                *)
(***************************************************************************)
\* keys the callers write: four core-frame keys and one transient key
WbKeys == {"loop_counter", "current_state", "qmd_candidates", "execution_plan",
           "result_planner_r0"}
\* values the callers write: one of each JSON type
WbValues == {IntV(1), StrV("DONE"), ListV(<<>>), ListV(<<IntV(7)>>), MapV({"step"})}

WbInit ==
    /\ data = MemoryMap_init
    /\ wbLast = [op |-> "init", key |-> "", dropped |-> {}]

WbUpdate(key, value) ==
    /\ data' = MemoryMap_update(data, key, value)
    /\ wbLast' = [op |-> "update", key |-> key, dropped |-> {}]
    /\ UNCHANGED <<smv, qmd, qmdLast, conc, mgr, lfs, slots, workspace, htg, mix, ckp>>

WbClear(preserve_core) ==
    /\ data' = MemoryMap_clear(data, preserve_core)
    /\ wbLast' = [op |-> IF preserve_core THEN "clear_preserve" ELSE "clear_all", key |-> "",
                  dropped |-> {k \in DOMAIN data : data[k] /= MemoryMap_get(data', k)}]
    /\ UNCHANGED <<smv, qmd, qmdLast, conc, mgr, lfs, slots, workspace, htg, mix, ckp>>

WbEnsure ==
    /\ data' = ensure_task_frame(data)
    /\ wbLast' = [op |-> "ensure", key |-> "", dropped |-> {}]
    /\ UNCHANGED <<smv, qmd, qmdLast, conc, mgr, lfs, slots, workspace, htg, mix, ckp>>

InitWB ==
    /\ WbInit
    /\ smv = Idle /\ qmd = Idle /\ qmdLast = Idle /\ conc = Idle /\ mgr = Idle /\ lfs = Idle /\ slots = Idle /\ workspace = Idle /\ htg = Idle /\ mix = Idle
    /\ ckp = Idle

NextWB ==
    \/ \E key \in WbKeys, value \in WbValues : WbUpdate(key, value)
    \/ \E preserve_core \in BOOLEAN : WbClear(preserve_core)
    \/ WbEnsure

SpecWB == InitWB /\ [][NextWB]_vars

\* the Python type each core-frame key is initialised with
FrameType(k) == core_defaults[k].kind

\* C4: after every update / clear(preserve_core=True) call, each of the ten
\* core-frame keys is present on the whiteboard and holds a value of its frame
\* type (map, list, string or integer).
C4_FrameInvariant ==
    \A k \in DOMAIN core_defaults :
        k \in DOMAIN data /\ data[k].kind = FrameType(k)

\* the part of C4 the code does keep: every core-frame key is present
C4_FramePresent == \A k \in DOMAIN core_defaults : k \in DOMAIN data

(***************************************************************************)
(* Text: a Python str as a sequence of tokens.                             *)
(***************************************************************************)
Whitespace == {" ", "\n", "\n\n"}

RECURSIVE LStrip(_)
LStrip(t) == IF t /= <<>> /\ Head(t) \in Whitespace THEN LStrip(Tail(t)) ELSE t

RECURSIVE RStrip(_)
RStrip(t) ==
    IF t /= <<>> /\ t[Len(t)] \in Whitespace THEN RStrip(SubSeq(t, 1, Len(t) - 1)) ELSE t

\* a plausible slip: the text is used untrimmed
Strip_identity(t) == t

\* str.strip()
Strip(t) == RStrip(LStrip(t))

\* not str(x).strip()
IsBlank(t) == Strip(t) = <<>>

(***************************************************************************)
(* StateMachine (src/swarmbot/statemachine/engine.py)                      *)
(***************************************************************************)
\* bound on the number of injected failures: agent calls that raise and
\* persistence steps that fail
MaxFaults == 1

\* the graph _chat_state_machine builds: 'end' is a target but no State
GraphTwoState ==
    [initial |-> "coding",
     states  |-> [coding |-> [default |-> "review"],
                  review |-> [PASS |-> "end", FAIL |-> "coding"]]]

\* the graph of test_state_machine_logic
GraphThreeState ==
    [initial |-> "coding",
     states  |-> [coding  |-> [default |-> "review"],
                  review  |-> [PASS |-> "summary", FAIL |-> "coding"],
                  summary |-> [x \in {} |-> ""]]]

\* a graph whose routed state has a default edge back to itself
GraphFallback ==
    [initial |-> "draft",
     states  |-> [draft  |-> [PASS |-> "publish", default |-> "draft"],
                  publish |-> [x \in {} |-> ""]]]

SmGraphs == {GraphTwoState, GraphThreeState, GraphFallback}

\* bound on the max_steps argument of run (its default is 10)
MaxSteps == 5

\* what an agent's step returns for a state's task prompt
SmTaskReplies == {<<"v1">>, <<"v2">>}
\* inside chat one task reply is enough: the flow does not inspect it
SmTaskRepliesNow == IF mgr = Idle THEN SmTaskReplies ELSE {<<"v1">>}
\* what it returns for the routing prompt
SmRouterReplies == {<<"PASS">>, <<"FAIL">>, <<" ", "PASS", "\n">>, <<"pass">>}

\* a transition label as text
LabelText(label) == <<label>>

\* a plausible slip: the reply is not looked up, the "FAIL" edge is taken
\* whenever the state has one
ResolveTransition_stuck(transitions, decision) ==
    IF "FAIL" \in DOMAIN transitions
    THEN [found |-> TRUE, next |-> transitions["FAIL"]]
    ELSE IF "default" \in DOMAIN transitions
    THEN [found |-> TRUE, next |-> transitions["default"]]
    ELSE [found |-> FALSE, next |-> ""]

\* engine.py lines 81-88: the trimmed decision as a key, else "default", else none
ResolveTransition(transitions, decision) ==
    IF \E label \in DOMAIN transitions : LabelText(label) = decision
    THEN [found |-> TRUE,
          next |-> transitions[CHOOSE label \in DOMAIN transitions : LabelText(label) = decision]]
    ELSE IF "default" \in DOMAIN transitions
    THEN [found |-> TRUE, next |-> transitions["default"]]
    ELSE [found |-> FALSE, next |-> ""]

\* "\n\n".join(self.history), one "[name] response" entry per executed state
RECURSIVE JoinHistory(_)
JoinHistory(h) ==
    IF h = <<>> THEN <<>>
    ELSE IF Len(h) = 1 THEN <<"[", h[1].name, "] ">> \o h[1].response
    ELSE <<"[", h[1].name, "] ">> \o h[1].response \o <<"\n\n">> \o JoinHistory(Tail(h))

SmInit ==
    \E g \in SmGraphs, max_steps \in 1..MaxSteps :
        smv = [pc |-> "loop", graph |-> g, max_steps |-> max_steps,
               current_state |-> g.initial, step |-> 0, history |-> <<>>,
               response |-> <<>>, visited |-> <<g.initial>>, decisions |-> <<>>,
               calls |-> 0, result |-> <<>>]

SmOthers == UNCHANGED <<data, wbLast, qmd, qmdLast, conc, mgr, lfs, slots, workspace, htg, mix, ckp>>

SmNode == smv.graph.states[smv.current_state]

\* lines 38-69: the loop test, the task call, and the single-"default" shortcut
SmExecute ==
    /\ smv.pc = "loop"
    /\ smv.step < smv.max_steps
    /\ smv.current_state \in DOMAIN smv.graph.states
    /\ \E response \in SmTaskRepliesNow :
        LET h == Append(smv.history, [name |-> smv.current_state, response |-> response])
            base == [smv EXCEPT !.history = h, !.response = response, !.calls = @ + 1]
        IN  IF DOMAIN SmNode = {}
            THEN smv' = [base EXCEPT !.pc = "done", !.result = JoinHistory(h)]
            ELSE IF DOMAIN SmNode = {"default"}
            THEN smv' = [base EXCEPT !.current_state = SmNode["default"],
                                     !.visited = Append(@, SmNode["default"]),
                                     !.step = @ + 1]
            ELSE smv' = [base EXCEPT !.pc = "route"]
    /\ SmOthers

\* lines 72-96: the routing call and the resolution of its reply
SmRoute ==
    /\ smv.pc = "route"
    /\ \E reply \in SmRouterReplies :
        LET decision == Strip(reply)
            r == ResolveTransition(SmNode, decision)
            base == [smv EXCEPT !.decisions = Append(@, decision), !.calls = @ + 1]
        IN  IF r.found
            THEN smv' = [base EXCEPT !.pc = "loop", !.current_state = r.next,
                                     !.visited = Append(@, r.next), !.step = @ + 1]
            ELSE smv' = [base EXCEPT !.pc = "done", !.result = JoinHistory(smv.history)]
    /\ SmOthers

\* lines 40-41: the current state names no State
SmNotFound ==
    /\ smv.pc = "loop"
    /\ smv.step < smv.max_steps
    /\ smv.current_state \notin DOMAIN smv.graph.states
    /\ smv' = [smv EXCEPT !.pc = "done",
                          !.result = <<"Error: State ", smv.current_state, " not found.">>]
    /\ SmOthers

\* line 38 and 98: max_steps is exhausted
SmExhausted ==
    /\ smv.pc = "loop"
    /\ smv.step >= smv.max_steps
    /\ smv' = [smv EXCEPT !.pc = "done", !.result = JoinHistory(smv.history)]
    /\ SmOthers

\* the agent's step raises: run has no handler, the exception leaves it
SmAgentRaises ==
    /\ IF mgr = Idle THEN TRUE ELSE mgr.faults < MaxFaults
    /\ \/ smv.pc = "route"
       \/ /\ smv.pc = "loop" /\ smv.step < smv.max_steps
          /\ smv.current_state \in DOMAIN smv.graph.states
    /\ smv' = [smv EXCEPT !.pc = "raised", !.calls = @ + 1]
    /\ SmOthers

InitSM ==
    /\ SmInit
    /\ data = Idle /\ wbLast = Idle /\ qmd = Idle /\ qmdLast = Idle /\ conc = Idle /\ mgr = Idle /\ lfs = Idle /\ slots = Idle /\ workspace = Idle /\ htg = Idle /\ mix = Idle
    /\ ckp = Idle

NextSM == SmExecute \/ SmRoute \/ SmNotFound \/ SmExhausted \/ SmAgentRaises

SpecSM == InitSM /\ [][NextSM]_vars

\* the names of the executed states, in execution order
HistoryNames == [i \in 1..Len(smv.history) |-> smv.history[i].name]

\* C6: run follows the resolved transitions in order.  With the router answering
\* FAIL once and then PASS (and max_steps large enough for the scenario), the
\* two-state graph {A -> B, B -> PASS: end / FAIL: A} is visited A, B, A, B, end
\* within max_steps, and the three-state graph of the test executes coding,
\* review, coding, review, summary in that order.
C6_RoutingOrder ==
    (smv.pc = "done" /\ smv.decisions = <<(<<"FAIL">>), (<<"PASS">>)>>) =>
        /\ (smv.graph = GraphTwoState /\ smv.max_steps >= 4) =>
              /\ smv.visited = <<"coding", "review", "coding", "review", "end">>
              /\ HistoryNames = <<"coding", "review", "coding", "review">>
              /\ smv.step <= smv.max_steps
        /\ (smv.graph = GraphThreeState /\ smv.max_steps >= 5) =>
              /\ HistoryNames = <<"coding", "review", "coding", "review", "summary">>
              /\ smv.visited = HistoryNames
              /\ smv.step <= smv.max_steps

\* C6 witness: a finished run of the two-state graph that went through FAIL, PASS
C6_Witness ==
    /\ smv.pc = "done" /\ smv.graph = GraphTwoState /\ smv.max_steps >= 4
    /\ smv.decisions = <<(<<"FAIL">>), (<<"PASS">>)>>
    /\ smv.current_state = "end"

(***************************************************************************)
(* EmbeddedQMD (src/swarmbot/memory/qmd_wrapper.py)                        *)
(*                                                                         *)
(* collections: the rows of the collections table in id order (the id of a *)
(* name is its position).  documents: the rows of the documents table in   *)
(* rowid order.  A document's content is a sequence of words.              *)
(***************************************************************************)
\* bound on the number of documents added
MaxDocs == 3
\* bound on the limit argument of search (its default is 5)
MaxLimit == 2

CollectionNames == {"", "c1", "c2"}
\* the collection argument of search: a name, or None
NoCollection == "<None>"
\* every document has two distinct words, so the matches of one query tie in
\* FTS5's bm25 rank and come back in rowid order
QmdContents == {<<"hello", "world">>, <<"hello", "there">>}
QmdQueries == {<<"hello">>, <<"hello", "world">>}

Min(a, b) == IF a < b THEN a ELSE b

\* query occurs in content: FTS5 phrase match, or LIKE '%query%'
Matches(query, content) ==
    \E i \in 1..(Len(content) - Len(query) + 1) :
        SubSeq(content, i, i + Len(query) - 1) = query

\* _get_collection_id: the id of the name, inserting the row when it is missing
CollectionsWith(collections, name) ==
    IF \E i \in 1..Len(collections) : collections[i] = name
    THEN collections ELSE Append(collections, name)

get_collection_id(collections, name) ==
    CHOOSE i \in 1..Len(CollectionsWith(collections, name)) :
        CollectionsWith(collections, name)[i] = name

\* Python truthiness of the collection argument (line 92 / 103)
Truthy(collection) == collection /= "" /\ collection /= NoCollection

Reverse(q) == [i \in 1..Len(q) |-> q[Len(q) + 1 - i]]

\* a plausible slip: the collection filter is left out of the query
SearchRows_unfiltered(db, query, collection, limit) ==
    LET rowids == [i \in 1..Len(db.documents) |-> i]
        hit(i) == Matches(query, db.documents[i].content)
        hits == SelectSeq(rowids, hit)
        ordered == IF db.has_fts THEN hits ELSE Reverse(hits)
    IN  SubSeq(ordered, 1, Min(limit, Len(ordered)))

\* search, lines 78-118: the rowids returned, in result order
SearchRows(db, query, collection, limit) ==
    LET rowids == [i \in 1..Len(db.documents) |-> i]
        hit(i) ==
            /\ Matches(query, db.documents[i].content)
            /\ Truthy(collection) =>
                  db.documents[i].collection_id = get_collection_id(db.collections, collection)
        hits == SelectSeq(rowids, hit)
        \* ORDER BY rank (ties: rowid order) / ORDER BY created_at DESC
        ordered == IF db.has_fts THEN hits ELSE Reverse(hits)
    IN  SubSeq(ordered, 1, Min(limit, Len(ordered)))

\* the content of each returned row
SearchContents(db, rows) == [i \in 1..Len(rows) |-> db.documents[rows[i]].content]

\* _init_db: whether the sqlite build has FTS5 decides the table used
QmdInit ==
    /\ \E has_fts \in BOOLEAN :
          qmd = [has_fts |-> has_fts, collections |-> <<>>, documents |-> <<>>]
    /\ qmdLast = [op |-> "init", content |-> <<>>, query |-> <<>>, collection |-> "",
                  limit |-> 0, rows |-> <<>>]

QmdOthers == UNCHANGED <<data, wbLast, smv, conc, mgr, lfs, slots, workspace, htg, mix, ckp>>

\* add, lines 66-76
QmdAddTo(db, content, collection) ==
    [db EXCEPT !.collections = CollectionsWith(db.collections, collection),
               !.documents = Append(@, [content |-> content,
                                        collection_id |-> get_collection_id(db.collections, collection)])]

QmdAdd(content, collection) ==
    /\ Len(qmd.documents) < MaxDocs
    /\ qmd' = QmdAddTo(qmd, content, collection)
    /\ qmdLast' = [op |-> "add", content |-> content, query |-> <<>>,
                   collection |-> collection, limit |-> 0, rows |-> <<>>]
    /\ QmdOthers

\* search: the collection row is created when the name is new (line 93 / 104)
QmdSearch(query, collection, limit) ==
    /\ qmd' = [qmd EXCEPT !.collections =
                  IF Truthy(collection) THEN CollectionsWith(@, collection) ELSE @]
    /\ qmdLast' = [op |-> "search", content |-> <<>>, query |-> query,
                   collection |-> collection, limit |-> limit,
                   rows |-> SearchRows(qmd, query, collection, limit)]
    /\ QmdOthers

InitQMD ==
    /\ QmdInit
    /\ data = Idle /\ wbLast = Idle /\ smv = Idle /\ conc = Idle /\ mgr = Idle /\ lfs = Idle /\ slots = Idle /\ workspace = Idle /\ htg = Idle /\ mix = Idle
    /\ ckp = Idle

NextQMD ==
    \/ \E content \in QmdContents, collection \in CollectionNames : QmdAdd(content, collection)
    \/ \E query \in QmdQueries, collection \in CollectionNames \cup {NoCollection},
          limit \in 1..MaxLimit : QmdSearch(query, collection, limit)

SpecQMD == InitQMD /\ [][NextQMD]_vars

\* the rowids of the documents that were added to the named collection
AddedTo(db, collection) ==
    {i \in 1..Len(db.documents) :
        db.collections[db.documents[i].collection_id] = collection}

InSeq(x, q) == \E i \in 1..Len(q) : q[i] = x

MatchingIn(db, q, c) == {i \in AddedTo(db, c) : Matches(q, db.documents[i].content)}

MaxAgents == 3
\* reassign_roles never keeps more slots than this
SlotCap == 10

default_roles ==
    <<"planner", "coder", "critic", "summarizer", "researcher", "analyst", "writer", "reviewer">>

WorkerRole(n) == "worker-" \o ToString(n)

\* _init_default_agents: one slot per configured agent
init_default_agents(max_agents) ==
    [idx \in 1..max_agents |->
        [role |-> IF idx <= Len(default_roles) THEN default_roles[idx] ELSE WorkerRole(idx),
         skills |-> {}]]

resize_swarm(agents, target_count) ==
    IF target_count > Len(agents)
    THEN agents \o [i \in 1..(target_count - Len(agents)) |->
                      [role |-> WorkerRole(Len(agents) + i), skills |-> {}]]
    ELSE SubSeq(agents, 1, target_count)

\* role names an LLM proposes in the model
ProposedRoles == {"analyst", "coder"}
\* str.lower() of a role name
LowerRole(role) ==
    CASE role = "Data Analyst" -> "data analyst"
      [] role = "Market Researcher" -> "market researcher"
      [] OTHER -> role
\* the skill_map keywords that are substrings of a lower-case role name
KeywordsIn(role) ==
    CASE role = "analyst" -> {"analyst"}
      [] role = "coder" -> {"code"}
      [] role = "writer" -> {"writer"}
      [] role = "reviewer" -> {"reviewer"}
      [] role = "researcher" -> {"research"}
      [] role = "data analyst" -> {"data", "analyst"}
      [] role = "market researcher" -> {"market", "research"}
      [] role = "code reviewer" -> {"code", "reviewer"}
      [] OTHER -> {}

skill_map ==
    [finance |-> {"web_search"}, market |-> {"web_search"},
     research |-> {"web_search", "browser_open", "browser_read"},
     code |-> {"file_write", "shell_exec", "file_read"},
     developer |-> {"file_write", "shell_exec", "file_read"},
     data |-> {"python_exec"}, writer |-> {"web_search"},
     analyst |-> {"web_search", "browser_read"}, reviewer |-> {"file_read"}]

\* a plausible slip: the keywords are looked for in the role as written
SkillsFor_caseSensitive(role) ==
    {"whiteboard_update"} \cup UNION {skill_map[k] : k \in KeywordsIn(role)}

\* lines 82-89: whiteboard_update, and the tools of every key in role.lower()
SkillsFor(role) ==
    {"whiteboard_update"} \cup UNION {skill_map[k] : k \in KeywordsIn(LowerRole(role))}

reassign_roles(agents, new_roles) ==
    LET resized == resize_swarm(agents, Min(Len(new_roles), SlotCap))
    IN  [i \in 1..Len(resized) |->
            IF i <= Len(new_roles)
            THEN [role |-> new_roles[i], skills |-> SkillsFor(new_roles[i])]
            ELSE [role |-> "observer", skills |-> {}]]

\* the role lists a negotiation reply can carry: 1..MaxAgents proposed names
RoleLists == UNION {[1..n -> ProposedRoles] : n \in 1..MaxAgents}

\* the slot lists a session can hold when an architecture starts
SessionAgents ==
    {init_default_agents(n) : n \in 1..MaxAgents}
    \cup {reassign_roles(init_default_agents(n), new_roles) :
             n \in 1..MaxAgents, new_roles \in RoleLists}

(***************************************************************************)
(* _chat_concurrent (manager.py lines 537-570): the rounds on the pool     *)
(***************************************************************************)
\* a plausible slip: the round number is left out of the key
ResultKey_noRound(role, r) == "result_" \o role

\* line 557: the whiteboard key of one agent invocation
ResultKey(role, r) == "result_" \o role \o "_r" \o ToString(r)

\* a plausible slip: one worker per slot
PoolSize_perSlot(agents) == Len(agents)

\* lines 560 and 603: the pool size
PoolSize(agents) == Min(Len(agents), 2)

ConcInit ==
    \E agents \in SessionAgents, rounds \in {1, 2} :
        conc = [pc |-> "round", agents |-> agents, rounds |-> rounds, r |-> 0,
                task |-> [i \in 1..Len(agents) |-> "queued"],
                seen |-> [i \in 1..Len(agents) |-> <<>>],
                invoked |-> [i \in 1..Len(agents) |-> 0],
                whiteboard |-> MemoryMap_init,
                writes |-> <<>>, history_acc |-> <<>>, drafts |-> <<>>, failed |-> {}]

ConcOthers == UNCHANGED <<data, wbLast, smv, qmd, qmdLast, mgr, lfs, slots, workspace, htg, mix, ckp>>

ConcRunning == {i \in 1..Len(conc.agents) : conc.task[i] \in {"running", "writing"}}

\* the last n elements of a list: q[-n:]
LastN(q, n) == SubSeq(q, Len(q) - Min(n, Len(q)) + 1, Len(q))

\* a free worker takes the next submitted task; _run_agent builds its prompt
ConcStart(i) ==
    /\ conc.pc = "round"
    /\ conc.task[i] = "queued"
    /\ \A j \in 1..(i - 1) : conc.task[j] /= "queued"
    /\ Cardinality(ConcRunning) < PoolSize(conc.agents)
    /\ conc' = [conc EXCEPT !.task[i] = "running",
                            !.invoked[i] = @ + 1,
                            !.seen[i] = IF conc.r > 0
                                        THEN LastN(conc.history_acc, Len(conc.agents))
                                        ELSE <<>>]
    /\ ConcOthers

\* slot.agent.step(prompt) returns
ConcStepReturns(i) ==
    /\ conc.pc = "round"
    /\ conc.task[i] = "running"
    /\ conc' = [conc EXCEPT !.task[i] = "writing"]
    /\ ConcOthers

\* slot.agent.step(prompt) raises: the future holds the exception
ConcStepRaises(i) ==
    /\ conc.pc = "round"
    /\ conc.task[i] = "running"
    /\ conc' = [conc EXCEPT !.task[i] = "failed", !.failed = @ \cup {<<i, conc.r>>}]
    /\ ConcOthers

\* line 557: the worker writes its result to the whiteboard and returns
ConcWrite(i) ==
    /\ conc.pc = "round"
    /\ conc.task[i] = "writing"
    /\ LET key == ResultKey(conc.agents[i].role, conc.r)
       IN  conc' = [conc EXCEPT
                !.task[i] = "finished",
                !.whiteboard = MemoryMap_update(@, key, StrV("draft_" \o ToString(i) \o "_r" \o ToString(conc.r))),
                !.writes = Append(@, [key |-> key, slot |-> i, round |-> conc.r])]
    /\ ConcOthers

\* lines 562-568: the main thread collects one completed future
ConcCollect(i) ==
    /\ conc.pc = "round"
    /\ conc.task[i] \in {"finished", "failed"}
    /\ conc' = [conc EXCEPT
            !.task[i] = "collected",
            !.drafts = Append(@, IF conc.task[i] = "failed"
                                 THEN [kind |-> "placeholder", slot |-> i, round |-> conc.r]
                                 ELSE [kind |-> "result", slot |-> i, round |-> conc.r]),
            !.history_acc = IF conc.task[i] = "failed" THEN @
                            ELSE Append(@, [kind |-> "result", slot |-> i, round |-> conc.r])]
    /\ ConcOthers

ConcAllCollected == \A i \in 1..Len(conc.agents) : conc.task[i] = "collected"

\* line 544: the next round starts after the with-block of the pool has ended
ConcNextRound ==
    /\ conc.pc = "round"
    /\ ConcAllCollected
    /\ conc.r + 1 < conc.rounds
    /\ conc' = [conc EXCEPT !.r = @ + 1, !.drafts = <<>>,
                            !.task = [i \in 1..Len(conc.agents) |-> "queued"]]
    /\ ConcOthers

\* line 570: the rounds are over, consensus is next
ConcDone ==
    /\ conc.pc = "round"
    /\ ConcAllCollected
    /\ conc.r + 1 = conc.rounds
    /\ conc' = [conc EXCEPT !.pc = "consensus"]
    /\ ConcOthers

InitConc ==
    /\ ConcInit
    /\ data = Idle /\ wbLast = Idle /\ smv = Idle /\ qmd = Idle /\ qmdLast = Idle /\ mgr = Idle /\ lfs = Idle /\ slots = Idle /\ workspace = Idle /\ htg = Idle /\ mix = Idle
    /\ ckp = Idle

NextConc ==
    \/ \E i \in 1..MaxAgents : i <= Len(conc.agents) /\ ConcStart(i)
    \/ \E i \in 1..MaxAgents : i <= Len(conc.agents) /\ ConcStepReturns(i)
    \/ \E i \in 1..MaxAgents : i <= Len(conc.agents) /\ ConcStepRaises(i)
    \/ \E i \in 1..MaxAgents : i <= Len(conc.agents) /\ ConcWrite(i)
    \/ \E i \in 1..MaxAgents : i <= Len(conc.agents) /\ ConcCollect(i)
    \/ ConcNextRound
    \/ ConcDone

SpecConc == InitConc /\ [][NextConc]_vars

\* the per-round result keys the whiteboard holds
ResultKeys(wb) == (DOMAIN wb) \ (DOMAIN core_defaults)

\* C3: the concurrent architecture with N slots and R rounds (no agent failing)
\* leaves exactly N x R distinct result_<role>_r<round> keys on the whiteboard,
\* and no two agent invocations write the same key.
C3_DisjointKeys ==
    (conc.pc = "consensus" /\ conc.failed = {}) =>
        /\ Cardinality(ResultKeys(conc.whiteboard)) = Len(conc.agents) * conc.rounds
        /\ \A a, b \in 1..Len(conc.writes) :
              a /= b => conc.writes[a].key /= conc.writes[b].key

\* what the code does keep: slots with pairwise distinct roles never share a key
C3_DistinctRolesDisjoint ==
    (\A i, j \in 1..Len(conc.agents) : i /= j => conc.agents[i].role /= conc.agents[j].role) =>
        \A a, b \in 1..Len(conc.writes) :
            a /= b => conc.writes[a].key /= conc.writes[b].key

(***************************************************************************)
(* SwarmManager (src/swarmbot/swarm/manager.py): text helpers              *)
(***************************************************************************)
\* sep.join(parts)
RECURSIVE Join(_, _)
Join(parts, sep) ==
    IF parts = <<>> THEN <<>>
    ELSE IF Len(parts) = 1 THEN parts[1]
    ELSE parts[1] \o sep \o Join(Tail(parts), sep)

\* str.lower(), word by word
LowerWord(w) ==
    CASE w = "Deep" -> "deep"
      [] w = "Pending" -> "pending"
      [] w = "Group" -> "group"
      [] w = "Insufficient info" -> "insufficient info"
      [] w = "Conflict" -> "conflict"
      [] OTHER -> w

Lower(t) == [i \in 1..Len(t) |-> LowerWord(t[i])]

\* word in text
Contains(t, w) == \E i \in 1..Len(t) : t[i] = w

\* line 190: the literal fallback (a Chinese sentence in the source: "Swarmbot
\* produced no usable answer, retry later or simplify your question")
Apology == <<"Swarmbot produced no usable answer, please retry later or simplify your question.">>

\* a plausible slip: the raw result is returned without the blank check
FinalAnswer_noCheck(master_response, swarm_result) ==
    IF IsBlank(master_response) THEN swarm_result ELSE master_response

\* lines 184-192: the fallback chain of chat's return value
FinalAnswer(master_response, swarm_result) ==
    IF IsBlank(master_response)
    THEN IF IsBlank(swarm_result) THEN Apology ELSE swarm_result
    ELSE master_response

(***************************************************************************)
(* Consolidation: _persist_log (manager.py lines 384-485)                  *)
(***************************************************************************)
\* a qmd_candidates entry; score is confidence_score in hundredths, -1 when the
\* key is missing; status "" when verification_status is missing
Candidate(content, score, status) ==
    [content |-> content, confidence_score |-> score, verification_status |-> status]

\* float(item.get("confidence_score") or 0), in hundredths
ScoreOf(item) == item.confidence_score

\* line 450 compares against 0.7
PromoteThreshold == 70

\* a plausible slip: the pending check is dropped
Promotable_ignoringStatus(item) ==
    /\ ~IsBlank(item.content)
    /\ ~(ScoreOf(item) <= PromoteThreshold)

\* lines 445-451: the entries the loop does not skip
Promotable(item) ==
    /\ ~IsBlank(item.content)
    /\ ~(ScoreOf(item) <= PromoteThreshold \/ LowerWord(item.verification_status) = "pending")

\* the indices of the entries persist_to_qmd is called for, in list order
PromotedIndices(candidates) ==
    SelectSeq([i \in 1..Len(candidates) |-> i], LAMBDA i : Promotable(candidates[i]))

\* lines 452-457 and qmd.py 194-202: each promoted entry is added to core_memory
RECURSIVE PromoteAll(_, _, _)
PromoteAll(db, candidates, indices) ==
    IF indices = <<>> THEN db
    ELSE PromoteAll(QmdAddTo(db, candidates[Head(indices)].content, "core_memory"),
                    candidates, Tail(indices))

\* a plausible slip: the whole whiteboard is checkpointed
CheckpointOf_wholeBoard(whiteboard_data) == whiteboard_data

\* lines 463-477: the checkpoint holds the nine preserved keys
CheckpointOf(whiteboard_data) == DictRestrict(whiteboard_data, core_keys)

\* lines 412-417: the loop block appended to the session's log (its heading
\* and state line; the input, snippet and snapshot text is not kept)
LoopEntry(whiteboard_data, user_input, result) ==
    [kind |-> "loop",
     loop_counter |-> IF whiteboard_data["loop_counter"].kind = "int"
                      THEN whiteboard_data["loop_counter"].n ELSE 0,
     state |-> whiteboard_data["current_state"].s]

LogHeader == [kind |-> "header", loop_counter |-> 0, state |-> ""]

\* a plausible slip: every consolidation writes the file anew
LogWith_rewrite(log, entry) == <<LogHeader, entry>>

\* lines 424-436: header and entry on the first write, entry appended afterwards
LogWith(log, entry) ==
    IF log = <<>> THEN <<LogHeader, entry>> ELSE Append(log, entry)

(***************************************************************************)
(* SwarmManager.chat: the four-phase pipeline, one action per agent call   *)
(***************************************************************************)
\* bound on the number of chat calls a caller makes
MaxChats == 2
\* bound on the number of process restarts
MaxRestarts == 1
\* bound on the number of whiteboard_update tool calls agents make
MaxWrites == 1

SessionIds == {"s1"}

\* the architecture names a configuration carries
Architectures ==
    {"sequential", "concurrent", "mixture", "group_chat", "hierarchical", "swarm_router",
     "long_horizon", "state_machine", "auto"}

UserInputs == {<<"hi">>, <<"Deep", "roadmap">>, <<"many">>}

\* the qmd_candidates lists an agent's whiteboard_update tool call writes
CandidateLists ==
    {<<Candidate(<<"A">>, 90, "confirmed"), Candidate(<<"B">>, 50, "confirmed"),
       Candidate(<<"C">>, 95, "pending")>>,
     <<Candidate(<<"D">>, 90, "Pending"), Candidate(<<" ">>, 90, "confirmed")>>,
     <<Candidate(<<"E">>, 70, "confirmed"), Candidate(<<"F">>, 71, "")>>}

\* the reply of the n-th agent call of a chat call
ReplyText(n) == <<"r" \o ToString(n)>>

\* f"[{role}]"
Tag(role) == "[" \o role \o "]"

\* one activation of chat(): its arguments and locals
NewFrame(sid, user_input) ==
    [sid |-> sid, user_input |-> user_input, run |-> "", pc |-> "dispatch",
     idx |-> 1, round |-> 0, rounds |-> 0, context |-> <<>>, outputs |-> <<>>,
     history_acc |-> <<>>, drafts |-> <<>>, done |-> {}, plan |-> <<>>,
     swarm_result |-> <<>>, calls |-> <<>>, raised |-> {}, wrote |-> FALSE,
     pre_counter |-> 0, candidates |-> <<>>, added |-> <<>>, pfault |-> "none"]

NoLast ==
    [status |-> "none", sid |-> "", value |-> <<>>, master |-> <<>>, raw |-> <<>>,
     run |-> "", site |-> "", calls |-> <<>>, raised |-> {}, slots |-> 0, depth |-> 0,
     pre_counter |-> 0, pfault |-> "none"]

\* get_session, lines 131-140
get_session(sessions, config, sid) ==
    IF sid \in DOMAIN sessions THEN sessions
    ELSE DictSet(sessions, sid,
                 [agents |-> init_default_agents(config.max_agents),
                  architecture |-> config.architecture,
                  whiteboard |-> MemoryMap_init])

\* lines 211-212: every checkpointed key is written back
RestoreCheckpoint(wb, ckpts, sid) ==
    IF sid \in DOMAIN ckpts
    THEN [k \in (DOMAIN wb) \cup (DOMAIN ckpts[sid]) |->
            IF k \in DOMAIN ckpts[sid] THEN ckpts[sid][k] ELSE wb[k]]
    ELSE wb

\* Python truthiness of a whiteboard value
Falsy(v) ==
    \/ v.kind = "int" /\ v.n = 0
    \/ v.kind = "str" /\ v.s = "" /\ v.t = <<>>
    \/ v.kind = "list" /\ v.l = <<>>
    \/ v.kind = "map" /\ v.m = {}

\* lines 198-220: frame repair, checkpoint restore, loop_counter + 1, PLANNING.
\* int() of a non-numeric value raises and the handler skips both updates.
BootCounter(wb, ckpts, sid) ==
    LET restored == RestoreCheckpoint(ensure_task_frame(wb), ckpts, sid)
        v == MemoryMap_get(restored, "loop_counter")
    IN  IF v.kind = "int" \/ Falsy(v)
        THEN MemoryMap_update(
                 MemoryMap_update(restored, "loop_counter", IntV((IF Falsy(v) THEN 0 ELSE v.n) + 1)),
                 "current_state", StrV("PLANNING"))
        ELSE restored

\* lines 374-382: the structured context put on the whiteboard
boot_swarm_context(wb, ckpts, sid) ==
    MemoryMap_update(BootCounter(wb, ckpts, sid), "current_task_context",
        MapV({"swarmboot_config", "prompt", "qmd", "md", "session_id", "system_capabilities"}))

\* line 544: two rounds when the request mentions deep or research
ConcurrentRounds(user_input) ==
    IF Contains(Lower(user_input), "deep") \/ Contains(Lower(user_input), "research")
    THEN 2 ELSE 1

\* lines 671-676: the router's keyword test
RouterChoice(user_input) ==
    IF Contains(Lower(user_input), "many") THEN "concurrent"
    ELSE IF Contains(Lower(user_input), "roadmap") THEN "hierarchical"
    ELSE "sequential"

\* lines 150-169: the branch chat takes for an architecture name
RECURSIVE Dispatch(_, _)
Dispatch(f, architecture) ==
    CASE architecture = "auto" -> [f EXCEPT !.run = "auto", !.pc = "auto_arch"]
      [] architecture \in {"sequential", "long_horizon"} ->
            [f EXCEPT !.run = "sequential", !.pc = "seq", !.context = f.user_input]
      [] architecture = "group_chat" ->
            [f EXCEPT !.run = "group_chat", !.pc = "group", !.context = f.user_input]
      [] architecture = "mixture" -> [f EXCEPT !.run = "mixture", !.pc = "mix_decide"]
      [] architecture = "hierarchical" -> [f EXCEPT !.run = "hierarchical", !.pc = "hier_plan"]
      [] architecture = "swarm_router" -> Dispatch(f, RouterChoice(f.user_input))
      [] architecture = "state_machine" -> [f EXCEPT !.run = "state_machine", !.pc = "sm_build"]
      [] OTHER -> [f EXCEPT !.run = "concurrent", !.pc = "conc",
                            !.rounds = ConcurrentRounds(f.user_input)]

\* the value of loop_counter a call starts from: the session's whiteboard, or
\* after a restart the checkpoint file, or nothing
CounterBefore(m, sid) ==
    LET v == IF sid \in DOMAIN m.sessions
             THEN MemoryMap_get(m.sessions[sid].whiteboard, "loop_counter")
             ELSE IF sid \in DOMAIN m.ckpt /\ "loop_counter" \in DOMAIN m.ckpt[sid]
             THEN m.ckpt[sid]["loop_counter"]
             ELSE IntV(0)
    IN  v.n

\* lines 143-169: get_session, boot, and the dispatch that activates a flow
Enter(m, sid, user_input) ==
    LET sessions1 == get_session(m.sessions, m.config, sid)
        s == sessions1[sid]
        wb == boot_swarm_context(s.whiteboard, m.ckpt, sid)
        f == Dispatch([NewFrame(sid, user_input) EXCEPT !.pre_counter = CounterBefore(m, sid)],
                      s.architecture)
    IN  [m EXCEPT !.sessions = DictSet(sessions1, sid, [s EXCEPT !.whiteboard = wb]),
                  !.frames = Append(@, f),
                  !.phases = @ \o <<"boot", "execute">>]

Top == mgr.frames[Len(mgr.frames)]
Sess == mgr.sessions[Top.sid]
Agents == Sess.agents

\* the record of one agent.step call
CallRec(slot, role, prompt, ok, reply) ==
    [slot |-> slot, role |-> role, prompt |-> prompt, ok |-> ok, reply |-> reply]

WithCall(f, slot, role, prompt, ok, reply) ==
    [f EXCEPT !.calls = Append(@, CallRec(slot, role, prompt, ok, reply)),
              !.raised = IF ok THEN @ ELSE @ \cup {Len(f.calls) + 1}]

WithTop(m, f) == [m EXCEPT !.frames[Len(m.frames)] = f]

\* whether one more agent call may raise
MayRaise == mgr.faults < MaxFaults
\* the outcomes of an agent call: it returns (TRUE) or raises (FALSE)
Outcomes == IF MayRaise THEN BOOLEAN ELSE {TRUE}
Counted(m, ok) == IF ok THEN m ELSE [m EXCEPT !.faults = @ + 1]

\* an exception that no handler catches unwinds every activation of chat
Abort(m, f) ==
    [m EXCEPT !.frames = <<>>,
              !.last = [status |-> "raised", sid |-> f.sid, value |-> <<>>, master |-> <<>>,
                        raw |-> f.swarm_result, run |-> f.run, site |-> f.pc,
                        calls |-> f.calls, raised |-> f.raised,
                        slots |-> Len(m.sessions[f.sid].agents), depth |-> Len(m.frames),
                        pre_counter |-> m.frames[1].pre_counter, pfault |-> f.pfault]]

ChatOthers == UNCHANGED <<data, wbLast, smv, qmd, qmdLast, conc, lfs, slots, workspace, htg, mix, ckp>>

ChatInit ==
    \E max_agents \in 1..MaxAgents, architecture \in Architectures :
        mgr = [config |-> [max_agents |-> max_agents, architecture |-> architecture],
               sessions |-> EmptyDict, ckpt |-> EmptyDict,
               logs |-> [sid \in SessionIds |-> <<>>],
               ltm |-> [has_fts |-> TRUE, collections |-> <<>>, documents |-> <<>>],
               consolidations |-> [sid \in SessionIds |-> <<>>],
               frames |-> <<>>, chats |-> 0, restarts |-> 0, faults |-> 0, writes |-> 0,
               phases |-> <<>>, last |-> NoLast]

\* a caller invokes chat(user_input, session_id)
ChatBegin(sid, user_input) ==
    /\ mgr.frames = <<>>
    /\ mgr.chats < MaxChats
    /\ mgr' = Enter([mgr EXCEPT !.chats = @ + 1, !.last = NoLast, !.phases = <<>>],
                    sid, user_input)
    /\ ChatOthers

\* line 534: the context grows by every reply
SeqContext_lastOnly(context, reply) == reply

SeqContext(context, reply) == context \o <<"\n\n">> \o reply

\* lines 526-535, one loop iteration: the slot's agent is called with the context
SeqStep(ok) ==
    /\ mgr.frames /= <<>> /\ Top.pc = "seq"
    /\ LET role == Agents[Top.idx].role
           reply == ReplyText(Len(Top.calls) + 1)
           f1 == WithCall(Top, Top.idx, role, Top.context, ok, IF ok THEN reply ELSE <<>>)
           outputs == Append(Top.outputs, <<Tag(role), "\n">> \o reply)
           f2 == [f1 EXCEPT !.outputs = outputs, !.context = SeqContext(Top.context, reply),
                            !.idx = @ + 1]
       IN  mgr' = IF ~ok THEN Counted(Abort(mgr, f1), ok)
                  ELSE IF Top.idx < Len(Agents) THEN WithTop(mgr, f2)
                  ELSE WithTop(mgr, [f2 EXCEPT !.pc = "consolidate",
                                               !.swarm_result = Join(outputs, <<"\n\n">>)])
    /\ ChatOthers

\* lines 551-555: the prompt of a task in round r (0-based)
ConcPrompt(f, agents) ==
    IF f.round > 0
    THEN <<"Round ", ToString(f.round + 1), " Task. Previous findings:\n">>
         \o Join(LastN(f.history_acc, Len(agents)), <<"\n">>)
         \o <<"\n\nOriginal Request: ">> \o f.user_input \o <<"\nRefine or expand.">>
    ELSE f.user_input

\* line 568: what the handler of a failed task appends to drafts
FailurePlaceholder == <<"[System] Agent failed: ", "error">>

\* the tasks of the round the pool has not finished
ConcPending(f, agents) == (1..Len(agents)) \ f.done

\* lines 546-568: one task of the round runs in the pool and is collected.
\* Tasks are taken in submission order here; the interleavings of the pool's
\* threads are the subject of SpecConc.
ConcTask(ok) ==
    /\ mgr.frames /= <<>> /\ Top.pc = "conc"
    /\ LET i == CHOOSE j \in ConcPending(Top, Agents) : \A k \in ConcPending(Top, Agents) : j <= k
           role == Agents[i].role
           reply == ReplyText(Len(Top.calls) + 1)
           res == <<Tag(role), "\n">> \o reply
           f1 == WithCall(Top, i, role, ConcPrompt(Top, Agents), ok, IF ok THEN reply ELSE <<>>)
           f2 == IF ok
                 THEN [f1 EXCEPT !.drafts = Append(@, res), !.history_acc = Append(@, res),
                                 !.done = @ \cup {i}]
                 ELSE [f1 EXCEPT !.drafts = Append(@, FailurePlaceholder), !.done = @ \cup {i}]
           f3 == IF f2.done /= 1..Len(Agents) THEN f2
                 ELSE IF f2.round + 1 < f2.rounds
                 THEN [f2 EXCEPT !.round = @ + 1, !.done = {}, !.drafts = <<>>]
                 ELSE [f2 EXCEPT !.pc = "consensus", !.outputs = f2.history_acc]
           wb == IF ok THEN MemoryMap_update(Sess.whiteboard, ResultKey(role, Top.round), TextV(reply))
                 ELSE Sess.whiteboard
       IN  mgr' = Counted([WithTop(mgr, f3) EXCEPT !.sessions[Top.sid].whiteboard = wb], ok)
    /\ ChatOthers

\* what the moderator's step returns
ConsensusReplies(n) ==
    {ReplyText(n), <<>>, <<"Insufficient info">>, <<"Conflict", " ", "between", " ", "agents">>}
\* and what it returns when asked to refine
RetryReplies(n) == {ReplyText(n), <<"Insufficient info">>}

\* lines 733-736
ConsensusPrompt(f) ==
    <<"Synthesize final answer from agent outputs.", "Original: ">> \o f.user_input
    \o <<"\nOutputs:\n">> \o Join(f.outputs, <<"\n">>)

\* the slots after an exception left slot 1's role replaced
RoleLeft(m, sid, role) == [m EXCEPT !.sessions[sid].agents[1].role = role]

\* lines 725-737: the moderator's first call
Consensus(ok) ==
    /\ mgr.frames /= <<>> /\ Top.pc = "consensus"
    /\ \E reply \in ConsensusReplies(Len(Top.calls) + 1) :
        LET f1 == WithCall(Top, 1, "consensus_moderator", ConsensusPrompt(Top), ok,
                           IF ok THEN reply ELSE <<>>)
        IN  mgr' = IF ~ok THEN Counted(Abort(RoleLeft(mgr, Top.sid, "consensus_moderator"), f1), ok)
                   ELSE IF Contains(Lower(reply), "insufficient info")
                   THEN WithTop(mgr, [f1 EXCEPT !.pc = "consensus_retry", !.context = reply])
                   ELSE WithTop(mgr, [f1 EXCEPT !.pc = "consolidate", !.swarm_result = reply])
    /\ ChatOthers

\* lines 739-743: the single retry after a weak decision
ConsensusRetry(ok) ==
    /\ mgr.frames /= <<>> /\ Top.pc = "consensus_retry"
    /\ \E reply \in RetryReplies(Len(Top.calls) + 1) :
        LET prompt == <<"Previous consensus weak: ">> \o Top.context \o <<"\nRefine answer.">>
            f1 == WithCall(Top, 1, "consensus_moderator", prompt, ok, IF ok THEN reply ELSE <<>>)
        IN  mgr' = IF ~ok THEN Counted(Abort(RoleLeft(mgr, Top.sid, "consensus_moderator"), f1), ok)
                   ELSE WithTop(mgr, [f1 EXCEPT !.pc = "consolidate", !.swarm_result = reply])
    /\ ChatOthers

\* line 644: the default number of group-chat rounds
GroupRounds == 3

\* a plausible slip: the context accumulates as in the sequential flow
GroupContext_cumulative(context, reply) == context \o <<"\n\n">> \o reply

\* line 653: the next agent's context is the reply just produced
GroupContext(context, reply) == reply

\* lines 644-654, one inner iteration: each agent answers the previous reply
GroupStep(ok) ==
    /\ mgr.frames /= <<>> /\ Top.pc = "group"
    /\ LET role == Agents[Top.idx].role
           reply == ReplyText(Len(Top.calls) + 1)
           tag == "[round " \o ToString(Top.round + 1) \o " - " \o role \o "]"
           f1 == WithCall(Top, Top.idx, role, Top.context, ok, IF ok THEN reply ELSE <<>>)
           f2 == [f1 EXCEPT !.outputs = Append(@, <<tag, "\n">> \o reply),
                            !.context = GroupContext(Top.context, reply)]
           f3 == IF Top.idx < Len(Agents) THEN [f2 EXCEPT !.idx = @ + 1]
                 ELSE IF Top.round + 1 < GroupRounds THEN [f2 EXCEPT !.idx = 1, !.round = @ + 1]
                 ELSE [f2 EXCEPT !.pc = "consensus"]
       IN  mgr' = IF ok THEN WithTop(mgr, f3) ELSE Counted(Abort(mgr, f1), ok)
    /\ ChatOthers

(***************************************************************************)
(* _chat_mixture (manager.py lines 572-642) inside chat.  The experts of a *)
(* round are taken in submission order here; the interleavings of the      *)
(* pool's threads are the subject of SpecMix.                              *)
(***************************************************************************)
\* line 576: the round count when the first agent names none
DefaultRounds == 5
\* the words the pattern \b([1-9]|10)\b matches, and their values
RoundWords == {"1", "2", "3", "10"}
NumberOf(word) ==
    CASE word = "0" -> 0 [] word = "1" -> 1 [] word = "2" -> 2 [] word = "3" -> 3
      [] word = "10" -> 10 [] word = "12" -> 12 [] OTHER -> 0

\* what the first agent answers when asked for the round count
RoundReplies ==
    {<<"1">>, <<"Use", " ", "2", " ", "or", " ", "3">>, <<"3">>, <<"12">>}

\* lines 576-586: re.search takes the first match; no match or an exception
\* of the call leaves the default
ParseRounds(ok, reply) ==
    IF ok /\ \E i \in 1..Len(reply) : reply[i] \in RoundWords
    THEN NumberOf(reply[CHOOSE i \in 1..Len(reply) :
                          /\ reply[i] \in RoundWords
                          /\ \A j \in 1..(i - 1) : reply[j] \notin RoundWords])
    ELSE DefaultRounds

\* what the judge answers, with len(decision)
JudgeReplies ==
    {[text |-> <<"YES">>, len |-> 3], [text |-> <<"yes">>, len |-> 3],
     [text |-> <<"NO">>, len |-> 2],
     [text |-> <<"NO", ",", " ", "not", " ", "yes">>, len |-> 11],
     [text |-> <<"YES", " ", "but the drafts still disagree">>, len |-> 33]}

\* str.upper(), word by word
UpperWord(w) == IF w = "yes" THEN "YES" ELSE w
Upper(t) == [i \in 1..Len(t) |-> UpperWord(t[i])]

\* line 618: "YES" in decision.upper() and len(decision) < 20
ShortYes(decision) == Contains(Upper(decision.text), "YES") /\ decision.len < 20

\* what the first agent answers to the round question inside chat
ChatRoundReplies(n) == {<<"1">>, <<"2">>}
\* what the judge answers inside chat
ChatJudgeReplies == {[text |-> <<"YES">>, len |-> 3], [text |-> <<"NO">>, len |-> 2]}

\* lines 579-586: the round count decision; an exception leaves the default
ChatMixDecide(ok) ==
    /\ mgr.frames /= <<>> /\ Top.pc = "mix_decide"
    /\ \E reply \in ChatRoundReplies(Len(Top.calls) + 1) :
        LET prompt == <<"Task: ">> \o Top.user_input
                      \o <<"\nDecide rounds (1-10). Default 5. Return int.">>
            f1 == WithCall(Top, 1, Agents[1].role, prompt, ok, IF ok THEN reply ELSE <<>>)
        IN  mgr' = Counted(WithTop(mgr, [f1 EXCEPT !.pc = "mix", !.round = 0,
                                                  !.rounds = ParseRounds(ok, reply)]), ok)
    /\ ChatOthers

\* lines 594-600: the prompt of an expert in round r (0-based)
MixPrompt(f, agents) ==
    IF f.round > 0
    THEN <<"Round ", ToString(f.round + 1), "/", ToString(f.rounds),
           ". Refine based on feedback.\n", "Previous:\n">>
         \o Join(LastN(f.history_acc, Len(agents)), <<"\n">>)
         \o <<"\n\nRequest: ">> \o f.user_input
    ELSE f.user_input

\* line 611: what the handler of a failed expert appends to drafts
MixFailurePlaceholder == <<"Error: ", "error">>

\* lines 588-611: one expert of the round runs in the pool and is collected
ChatMixTask(ok) ==
    /\ mgr.frames /= <<>> /\ Top.pc = "mix"
    /\ LET i == CHOOSE j \in ConcPending(Top, Agents) : \A k \in ConcPending(Top, Agents) : j <= k
           role == Agents[i].role
           reply == ReplyText(Len(Top.calls) + 1)
           res == <<Tag(role), "\n">> \o reply
           f1 == WithCall(Top, i, role, MixPrompt(Top, Agents), ok, IF ok THEN reply ELSE <<>>)
           f2 == IF ok
                 THEN [f1 EXCEPT !.drafts = Append(@, res), !.history_acc = Append(@, res),
                                 !.done = @ \cup {i}]
                 ELSE [f1 EXCEPT !.drafts = Append(@, MixFailurePlaceholder), !.done = @ \cup {i}]
           f3 == IF f2.done /= 1..Len(Agents) THEN f2
                 ELSE IF f2.round < f2.rounds - 1 THEN [f2 EXCEPT !.pc = "mix_judge"]
                 ELSE [f2 EXCEPT !.pc = "mix_ext"]
       IN  mgr' = Counted(WithTop(mgr, f3), ok)
    /\ ChatOthers

\* lines 613-619: the judge after a round that is not the last planned one;
\* the call sits in no try, its exception leaves chat
ChatMixJudge(ok) ==
    /\ mgr.frames /= <<>> /\ Top.pc = "mix_judge"
    /\ \E decision \in ChatJudgeReplies :
        LET prompt == <<"Findings:\n">> \o Join(Top.drafts, <<"\n">>) \o <<"\n\nRequest: ">>
                      \o Top.user_input \o <<"\nConsensus reached? Return YES/NO.">>
            f1 == WithCall(Top, 1, Agents[1].role, prompt, ok, IF ok THEN decision.text ELSE <<>>)
        IN  mgr' = IF ~ok THEN Counted(Abort(mgr, f1), ok)
                   ELSE IF ShortYes(decision) THEN WithTop(mgr, [f1 EXCEPT !.pc = "mix_ext"])
                   ELSE WithTop(mgr, [f1 EXCEPT !.pc = "mix", !.round = @ + 1, !.done = {},
                                                !.drafts = <<>>])
    /\ ChatOthers

\* lines 621-642: the extension check, whose loop body is "pass" and whose
\* exception is swallowed; the history then goes to consensus
ChatMixExtension(ok) ==
    /\ mgr.frames /= <<>> /\ Top.pc = "mix_ext"
    /\ LET reply == ReplyText(Len(Top.calls) + 1)
           prompt == <<"Is result complete? If NO, return extra rounds (1-3) else 0.">>
           f1 == WithCall(Top, 1, Agents[1].role, prompt, ok, IF ok THEN reply ELSE <<>>)
       IN  mgr' = Counted(WithTop(mgr, [f1 EXCEPT !.pc = "consensus",
                                                 !.outputs = f1.history_acc]), ok)
    /\ ChatOthers

\* lines 657-661: the director plans
HierPlan(ok) ==
    /\ mgr.frames /= <<>> /\ Top.pc = "hier_plan"
    /\ LET reply == ReplyText(Len(Top.calls) + 1)
           prompt == <<"Plan and split subtasks for:\n">> \o Top.user_input
           f1 == WithCall(Top, 1, Agents[1].role, prompt, ok, IF ok THEN reply ELSE <<>>)
           f2 == [f1 EXCEPT !.plan = reply, !.outputs = << <<"[director-plan]", "\n">> \o reply >>,
                            !.idx = 2,
                            !.pc = IF Len(Agents) >= 2 THEN "hier_work" ELSE "hier_summary"]
       IN  mgr' = IF ok THEN WithTop(mgr, f2) ELSE Counted(Abort(mgr, f1), ok)
    /\ ChatOthers

\* lines 663-665: one worker handles its subtask
HierWork(ok) ==
    /\ mgr.frames /= <<>> /\ Top.pc = "hier_work"
    /\ LET role == Agents[Top.idx].role
           reply == ReplyText(Len(Top.calls) + 1)
           prompt == <<"Subtask ", ToString(Top.idx - 1), " based on plan:\n">> \o Top.plan
                     \o <<"\n\nOriginal: ">> \o Top.user_input
           f1 == WithCall(Top, Top.idx, role, prompt, ok, IF ok THEN reply ELSE <<>>)
           f2 == [f1 EXCEPT !.outputs = Append(@, <<"[worker-" \o role \o "]", "\n">> \o reply),
                            !.idx = @ + 1,
                            !.pc = IF Top.idx < Len(Agents) THEN "hier_work" ELSE "hier_summary"]
       IN  mgr' = IF ok THEN WithTop(mgr, f2) ELSE Counted(Abort(mgr, f1), ok)
    /\ ChatOthers

\* lines 667-669: the director summarizes; the result joins every output
HierSummary(ok) ==
    /\ mgr.frames /= <<>> /\ Top.pc = "hier_summary"
    /\ LET reply == ReplyText(Len(Top.calls) + 1)
           prompt == <<"Summarize these results:\n">> \o Join(Top.outputs, <<"\n">>)
           f1 == WithCall(Top, 1, Agents[1].role, prompt, ok, IF ok THEN reply ELSE <<>>)
           outputs == Append(Top.outputs, <<"[director-summary]", "\n">> \o reply)
           f2 == [f1 EXCEPT !.outputs = outputs, !.pc = "consolidate",
                            !.swarm_result = Join(outputs, <<"\n\n">>)]
       IN  mgr' = IF ok THEN WithTop(mgr, f2) ELSE Counted(Abort(mgr, f1), ok)
    /\ ChatOthers

\* engine.py line 34: the default of run's max_steps
DefaultMaxSteps == 10

\* lines 678-687: the hard-coded graph is built from slots 2 and 3; a session
\* with fewer slots fails on the index
ChatSmBuild ==
    /\ mgr.frames /= <<>> /\ Top.pc = "sm_build"
    /\ IF Len(Agents) < 3
       THEN mgr' = Abort(mgr, Top) /\ UNCHANGED smv
       ELSE /\ mgr' = WithTop(mgr, [Top EXCEPT !.pc = "sm_run"])
            /\ smv' = [pc |-> "loop", graph |-> GraphTwoState, max_steps |-> DefaultMaxSteps,
                       current_state |-> GraphTwoState.initial, step |-> 0, history |-> <<>>,
                       response |-> <<>>, visited |-> <<GraphTwoState.initial>>,
                       decisions |-> <<>>, calls |-> 0, result |-> <<>>]
    /\ UNCHANGED <<data, wbLast, qmd, qmdLast, conc, lfs, slots, workspace, htg, mix, ckp>>

\* line 689: run's value is the raw result; an exception of run leaves chat
ChatSmReturn ==
    /\ mgr.frames /= <<>> /\ Top.pc = "sm_run"
    /\ smv.pc \in {"done", "raised"}
    /\ mgr' = IF smv.pc = "done"
              THEN WithTop(mgr, [Top EXCEPT !.pc = "consolidate", !.swarm_result = smv.result])
              ELSE Counted(Abort(mgr, Top), FALSE)
    /\ smv' = Idle
    /\ UNCHANGED <<data, wbLast, qmd, qmdLast, conc, lfs, slots, workspace, htg, mix, ckp>>

\* what the planner answers when asked for an architecture
AutoArchReplies(n) ==
    {<<"Group">>, <<" ", "hierarchical", "\n">>, <<"mixture">>, ReplyText(n)}

\* lines 701-704: the keyword found in the trimmed, lower-cased answer
SelectArchitecture(reply) ==
    LET arch_resp == Lower(Strip(reply))
    IN  IF Contains(arch_resp, "mixture") THEN "mixture"
        ELSE IF Contains(arch_resp, "group") THEN "group_chat"
        ELSE IF Contains(arch_resp, "hierarchical") THEN "hierarchical"
        ELSE "concurrent"

\* lines 696-706: the planner picks the architecture; a failure picks concurrent
AutoArch(ok) ==
    /\ mgr.frames /= <<>> /\ Top.pc = "auto_arch"
    /\ \E reply \in AutoArchReplies(Len(Top.calls) + 1) :
        LET prompt == <<"Task: ">> \o Top.user_input
                      \o <<"\nSelect arch: [concurrent, mixture, group_chat, hierarchical]. Return name.">>
            f1 == WithCall(Top, 1, Agents[1].role, prompt, ok, IF ok THEN reply ELSE <<>>)
            architecture == IF ok THEN SelectArchitecture(reply) ELSE "concurrent"
        IN  mgr' = Counted([WithTop(mgr, [f1 EXCEPT !.pc = "auto_roles"])
                              EXCEPT !.sessions[Top.sid].architecture = architecture], ok)
    /\ ChatOthers

\* what the planner answers when asked for the roles
AutoRoleReplies(n) ==
    {<<"Roles:", "[", "'analyst'", ",", " ", "analyst", "]">>, ReplyText(n)}

IndexOf(t, w, from) ==
    IF \E i \in from..Len(t) : t[i] = w
    THEN CHOOSE i \in from..Len(t) : t[i] = w /\ \A j \in from..(i - 1) : t[j] /= w
    ELSE 0

\* str.split(sep) on a token sequence
RECURSIVE Split(_, _)
Split(t, sep) ==
    LET i == IndexOf(t, sep, 1)
    IN  IF i = 0 THEN <<t>>
        ELSE <<SubSeq(t, 1, i - 1)>> \o Split(SubSeq(t, i + 1, Len(t)), sep)

RECURSIVE Concat(_)
Concat(t) == IF t = <<>> THEN "" ELSE t[1] \o Concat(Tail(t))

\* .strip("'").strip('"')
Unquote(w) == CASE w = "'analyst'" -> "analyst" [] OTHER -> w

\* lines 715-718: the first bracketed span, split on commas, trimmed, unquoted
ParseRoles(reply) ==
    LET open == IndexOf(reply, "[", 1)
        close == IF open = 0 THEN 0 ELSE IndexOf(reply, "]", open + 1)
        pieces == Split(SubSeq(reply, open + 1, close - 1), ",")
    IN  IF open = 0 \/ close = 0 THEN [match |-> FALSE, roles |-> <<>>]
        ELSE [match |-> TRUE,
              roles |-> [i \in 1..Len(pieces) |-> Unquote(Concat(Strip(pieces[i])))]]

\* lines 710-723: the planner proposes roles, then chat calls itself
AutoRoles(ok) ==
    /\ mgr.frames /= <<>> /\ Top.pc = "auto_roles"
    /\ \E reply \in AutoRoleReplies(Len(Top.calls) + 1) :
        LET prompt == <<"Analyze: ">> \o Top.user_input
                      \o <<"\nIdentify ", ToString(mgr.config.max_agents), " roles. Return python list.">>
            f1 == WithCall(Top, 1, Agents[1].role, prompt, ok, IF ok THEN reply ELSE <<>>)
            parsed == ParseRoles(reply)
            agents == IF ok /\ parsed.match THEN reassign_roles(Agents, parsed.roles) ELSE Agents
            m1 == [WithTop(mgr, [f1 EXCEPT !.pc = "auto_wait"])
                     EXCEPT !.sessions[Top.sid].agents = agents]
        IN  mgr' = Counted(Enter(m1, Top.sid, Top.user_input), ok)
    /\ ChatOthers

\* the call sites where the flow's own agents work
StepSites == {"seq", "conc", "group", "hier_plan"}

\* tools/adapter.py whiteboard_update: during the flow's first agent call the
\* agent stores a list of memory candidates on the whiteboard
AgentToolWrite(candidates) ==
    /\ mgr.frames /= <<>> /\ Top.pc \in StepSites
    /\ Top.calls = <<>> /\ ~Top.wrote
    /\ mgr.writes < MaxWrites
    /\ mgr' = [WithTop(mgr, [Top EXCEPT !.wrote = TRUE])
                 EXCEPT !.sessions[Top.sid].whiteboard =
                            MemoryMap_update(@, "qmd_candidates", ListV(candidates)),
                        !.writes = @ + 1]
    /\ ChatOthers

\* line 440: whiteboard_data.get("qmd_candidates") or [], kept when it is a list
CandidatesOf(whiteboard_data) ==
    LET v == MemoryMap_get(whiteboard_data, "qmd_candidates")
    IN  IF v.kind = "list" THEN v.l ELSE <<>>

\* the contents of the documents past the first n
ContentsFrom(db, n) ==
    [i \in 1..(Len(db.documents) - n) |-> db.documents[n + i].content]

\* the persistence step of a consolidation that fails, if any: the log write,
\* the first long-term insert, the checkpoint write before the file is opened,
\* or the checkpoint write after the file was truncated
PersistFaults == {"none", "log", "insert", "checkpoint", "checkpoint_torn"}

\* a plausible slip: a failing persistence step is not handled
PersistCaught_none(fault) == fault = "none"

\* lines 385/484-485, 439/458-459 and 462/482-483: every persistence step sits
\* in a try whose handler passes
PersistCaught(fault) == TRUE

DictRemove(d, k) == [x \in (DOMAIN d) \ {k} |-> d[x]]

\* lines 384-485: what _persist_log leaves in the log, the long-term store and
\* the checkpoint file.  A failing log write skips the rest of the function; a
\* failing insert skips the remaining candidates.
persist_log(m, f, fault) ==
    LET whiteboard_data == m.sessions[f.sid].whiteboard
        candidates == CandidatesOf(whiteboard_data)
        entry == LoopEntry(whiteboard_data, f.user_input, f.swarm_result)
    IN  [m EXCEPT
           !.logs[f.sid] = IF fault = "log" THEN @ ELSE LogWith(@, entry),
           !.ltm = IF fault \in {"log", "insert"} THEN @
                   ELSE PromoteAll(@, candidates, PromotedIndices(candidates)),
           !.ckpt = IF fault \in {"log", "checkpoint"} THEN @
                    ELSE IF fault = "checkpoint_torn" THEN DictRemove(@, f.sid)
                    ELSE DictSet(@, f.sid, CheckpointOf(whiteboard_data)),
           !.consolidations[f.sid] =
               Append(@, [entry |-> entry, logged |-> fault /= "log"])]

\* lines 172-181: _persist_log, then whiteboard.clear(preserve_core=True)
Consolidate(fault) ==
    /\ mgr.frames /= <<>> /\ Top.pc = "consolidate"
    /\ fault /= "none" => MayRaise
    /\ fault = "insert" => PromotedIndices(CandidatesOf(Sess.whiteboard)) /= <<>>
    /\ LET m1 == Counted(persist_log(mgr, Top, fault), fault = "none")
           f1 == [Top EXCEPT !.pc = "interpret", !.pfault = fault,
                             !.candidates = CandidatesOf(Sess.whiteboard),
                             !.added = ContentsFrom(m1.ltm, Len(mgr.ltm.documents))]
       IN  mgr' = IF PersistCaught(fault)
                  THEN [WithTop(m1, f1) EXCEPT
                          !.sessions[Top.sid].whiteboard = MemoryMap_clear(@, TRUE),
                          !.phases = Append(@, "consolidate")]
                  ELSE Abort(m1, [Top EXCEPT !.pfault = fault])
    /\ ChatOthers

\* what the master's step returns
MasterReplies(n) == {ReplyText(n), <<>>, <<" ", "\n">>}

\* lines 510-517
MasterPrompt(f) ==
    <<"User Input: ">> \o f.user_input \o <<"\n\n", "Swarm Execution Result:\n">>
    \o f.swarm_result \o <<"\n\n", "Task: Interpret the Swarm's result for the user.">>

\* the activations left when the innermost one returns value: the caller, if
\* any, takes it as its raw result (line 723)
Return(frames, value) ==
    IF Len(frames) = 1 THEN <<>>
    ELSE [i \in 1..(Len(frames) - 1) |->
            IF i = Len(frames) - 1
            THEN [frames[i] EXCEPT !.pc = "consolidate", !.swarm_result = value]
            ELSE frames[i]]

\* lines 183-192 and 487-522: the master interprets, the fallback chain picks
\* the returned value
Interpret(ok) ==
    /\ mgr.frames /= <<>> /\ Top.pc = "interpret"
    /\ \E master_response \in MasterReplies(Len(Top.calls) + 1) :
        LET f1 == WithCall(Top, 1, "master", MasterPrompt(Top), ok,
                           IF ok THEN master_response ELSE <<>>)
            value == FinalAnswer(master_response, Top.swarm_result)
        IN  mgr' = IF ~ok THEN Counted(Abort(RoleLeft(mgr, Top.sid, "master"), f1), ok)
                   ELSE [mgr EXCEPT
                           !.frames = Return(mgr.frames, value),
                           !.phases = Append(@, "interpret"),
                           !.last = [status |-> "returned", sid |-> Top.sid, value |-> value,
                                     master |-> master_response, raw |-> Top.swarm_result,
                                     run |-> Top.run, site |-> "", calls |-> f1.calls,
                                     raised |-> f1.raised, slots |-> Len(Agents),
                                     depth |-> Len(mgr.frames),
                                     pre_counter |-> Top.pre_counter,
                                     pfault |-> Top.pfault]]
    /\ ChatOthers

\* the process ends and a new SwarmManager is built: sessions are gone, the
\* cache files and the long-term store remain
Restart ==
    /\ mgr.frames = <<>>
    /\ mgr.restarts < MaxRestarts
    /\ DOMAIN mgr.sessions /= {}
    /\ mgr' = [mgr EXCEPT !.sessions = EmptyDict, !.restarts = @ + 1]
    /\ ChatOthers

InitChat ==
    /\ ChatInit
    /\ data = Idle /\ wbLast = Idle /\ smv = Idle /\ qmd = Idle /\ qmdLast = Idle /\ conc = Idle /\ lfs = Idle /\ slots = Idle /\ workspace = Idle /\ htg = Idle /\ mix = Idle
    /\ ckp = Idle

NextChat ==
    \/ \E sid \in SessionIds, user_input \in UserInputs : ChatBegin(sid, user_input)
    \/ \E ok \in Outcomes : SeqStep(ok)
    \/ \E ok \in Outcomes : ConcTask(ok)
    \/ \E ok \in Outcomes : Consensus(ok)
    \/ \E ok \in Outcomes : ConsensusRetry(ok)
    \/ \E ok \in Outcomes : GroupStep(ok)
    \/ \E ok \in Outcomes : ChatMixDecide(ok)
    \/ \E ok \in Outcomes : ChatMixTask(ok)
    \/ \E ok \in Outcomes : ChatMixJudge(ok)
    \/ \E ok \in Outcomes : ChatMixExtension(ok)
    \/ \E ok \in Outcomes : HierPlan(ok)
    \/ \E ok \in Outcomes : HierWork(ok)
    \/ \E ok \in Outcomes : HierSummary(ok)
    \/ ChatSmBuild
    \/ SmExecute \/ SmRoute \/ SmNotFound \/ SmExhausted \/ SmAgentRaises
    \/ ChatSmReturn
    \/ \E ok \in Outcomes : AutoArch(ok)
    \/ \E ok \in Outcomes : AutoRoles(ok)
    \/ \E candidates \in CandidateLists : AgentToolWrite(candidates)
    \/ \E fault \in PersistFaults : Consolidate(fault)
    \/ \E ok \in Outcomes : Interpret(ok)
    \/ Restart

SpecChat == InitChat /\ [][NextChat]_vars

(***************************************************************************)
(* Properties of chat                                                      *)
(***************************************************************************)
\* C1 as stated: whatever the agent's step does on any call, chat returns a
\* value; no call of chat ends with an exception of step reaching the caller.
C1_NeverRaises == ~(mgr.last.status = "raised" /\ mgr.last.raised /= {})

\* C2: every value chat returns is non-blank and is the master's output when
\* that is non-blank, else the raw result when that is non-blank, else the
\* literal apology.
C2_FallbackChain ==
    mgr.last.status = "returned" =>
        /\ Strip(mgr.last.value) /= <<>>
        /\ mgr.last.value =
              IF Strip(mgr.last.master) /= <<>> THEN mgr.last.master
              ELSE IF Strip(mgr.last.raw) /= <<>> THEN mgr.last.raw
              ELSE Apology

\* C2 witness: a call returned the apology after a blank interpretation of a
\* blank raw result
C2_Witness ==
    /\ mgr.last.status = "returned"
    /\ mgr.last.master = <<" ", "\n">> /\ mgr.last.raw = <<>>
    /\ mgr.last.value = Apology

\* the activation that has just consolidated
Consolidated == mgr.frames /= <<>> /\ Top.pc = "interpret"

ExampleCandidates ==
    <<Candidate(<<"A">>, 90, "confirmed"), Candidate(<<"B">>, 50, "confirmed"),
      Candidate(<<"C">>, 95, "pending")>>

RECURSIVE PriorReplies(_)
PriorReplies(j) == IF j = 0 THEN <<>> ELSE PriorReplies(j - 1) \o <<"\n\n">> \o ReplyText(j)

SequentialDone(f) == f.run = "sequential" /\ f.pc \in {"consolidate", "interpret"}

\* C7: when the sequential flow has run N agents replying r1..rN, agent k was
\* prompted with the user input followed by r1..r(k-1), and the result holds
\* every reply in slot order, each after its agent's role tag.
C7_SequentialFlow ==
    \A n \in 1..Len(mgr.frames) :
        LET f == mgr.frames[n]
            agents == mgr.sessions[f.sid].agents
        IN  SequentialDone(f) =>
              /\ Len(f.calls) = Len(agents)
              /\ \A k \in 1..Len(agents) :
                    /\ f.calls[k].slot = k /\ f.calls[k].ok
                    /\ f.calls[k].reply = ReplyText(k)
                    /\ f.calls[k].prompt = f.user_input \o PriorReplies(k - 1)
              /\ f.swarm_result =
                    Join([k \in 1..Len(agents) |-> <<Tag(agents[k].role), "\n">> \o ReplyText(k)],
                         <<"\n\n">>)

\* C7 witness: three agents have answered r1, r2, r3
C7_Witness ==
    /\ mgr.frames /= <<>> /\ SequentialDone(Top)
    /\ Top.swarm_result = <<"[planner]", "\n", "r1", "\n\n", "[coder]", "\n", "r2", "\n\n",
                            "[critic]", "\n", "r3">>
    /\ Top.calls[3].prompt = <<"hi", "\n\n", "r1", "\n\n", "r2">>

\* C9 as stated: a call of chat that returns leaves the session's loop_counter
\* exactly one above the value it started from (the whiteboard's, or after a
\* restart the checkpoint's), for every architecture.
C9_CounterStep ==
    (mgr.last.status = "returned" /\ mgr.last.depth = 1
        /\ mgr.last.sid \in DOMAIN mgr.sessions) =>
        MemoryMap_get(mgr.sessions[mgr.last.sid].whiteboard, "loop_counter")
            = IntV(mgr.last.pre_counter + 1)

\* the call sites of the architectures' own agent calls
ArchitectureSites == {"seq", "conc", "group", "hier_plan", "hier_work", "hier_summary"}

\* C10 as stated: an exception of an architecture's agent call is caught where
\* the call is made, so it never ends the chat call, and its placeholder is
\* among the outputs handed to consensus.
C10_FailureContained ==
    /\ mgr.last.status = "raised" => mgr.last.site \notin ArchitectureSites
    /\ (mgr.frames /= <<>> /\ Top.pc = "consensus" /\ Top.raised /= {}) =>
          InSeq(FailurePlaceholder, Top.outputs)

\* C11: a failing log write, long-term insert or checkpoint write never ends
\* the chat call, and the call returns what the fallback chain picks from the
\* interpretation and the raw result, exactly as without the failure.
C11_PersistenceTolerated ==
    /\ mgr.last.status = "raised" => mgr.last.site /= "consolidate"
    /\ (mgr.last.status = "returned" /\ mgr.last.pfault /= "none") =>
          /\ mgr.last.master \in MasterReplies(Len(mgr.last.calls))
          /\ mgr.last.value =
                IF ~IsBlank(mgr.last.master) THEN mgr.last.master
                ELSE IF ~IsBlank(mgr.last.raw) THEN mgr.last.raw
                ELSE Apology

\* C11 witness: a call whose log write failed returned the master's answer
C11_Witness ==
    /\ mgr.last.status = "returned" /\ mgr.last.pfault = "log"
    /\ mgr.last.value = mgr.last.master /\ mgr.last.value /= <<>>
    /\ mgr.logs[mgr.last.sid] = <<>>

\* the loop blocks of the consolidations chosen by keep, in the order they ran
BlocksOf(sid, keep(_)) ==
    LET kept == SelectSeq(mgr.consolidations[sid], keep)
    IN  [i \in 1..Len(kept) |-> kept[i].entry]

FileOf(blocks) == IF blocks = <<>> THEN <<>> ELSE <<LogHeader>> \o blocks

AutoPlanned == mgr.frames /= <<>> /\ mgr.frames[1].run = "auto" /\ mgr.frames[1].pc = "auto_wait"

\* a planner reply that failed, or that the parser could not use
ArchReplyUnusable(call) ==
    ~call.ok \/ ~\E w \in {"mixture", "group", "hierarchical"} : Contains(Lower(Strip(call.reply)), w)
RoleReplyUnusable(call) == ~call.ok \/ ~ParseRoles(call.reply).match

\* the part of C12 about the architecture: an unusable selection reply makes
\* the session concurrent, and no planner failure ends the chat call
C12_ArchitectureFallback ==
    /\ AutoPlanned /\ ArchReplyUnusable(mgr.frames[1].calls[1]) =>
          mgr.sessions[mgr.frames[1].sid].architecture = "concurrent"
    /\ mgr.last.status = "raised" => mgr.last.site \notin {"auto_arch", "auto_roles"}

\* C12 as stated: in auto an unusable architecture reply makes the session
\* concurrent, an unusable role reply replaces the roles by a roster of four,
\* and neither failure ends the chat call.
C12_AutoFallbacks ==
    /\ C12_ArchitectureFallback
    /\ AutoPlanned /\ RoleReplyUnusable(mgr.frames[1].calls[2]) =>
          Len(mgr.sessions[mgr.frames[1].sid].agents) = 4

(***************************************************************************)
(* LocalMDStore: two OS processes working on the same file.  Each call is  *)
(* taken apart into the steps the operating system sees: open (mode "w"    *)
(* truncates here, before any lock is held), flock, the transfer under the *)
(* lock, flock(LOCK_UN) in the finally clause, and the close at the end of *)
(* the with block, which flushes what f.write left in the buffer.          *)
(***************************************************************************)
Procs == {"p1", "p2"}
LogOps == {"write", "append", "read"}
MaxLogOps == 3

\* the content each process writes
PayloadOf(p) == IF p = "p1" THEN <<"a1", "a2">> ELSE <<"b1">>
Payloads == {PayloadOf(p) : p \in Procs}

NoCall == [pc |-> "closed", op |-> "none", pos |-> 0, buf |-> <<>>,
           result |-> <<>>, base |-> 0]

Prefix(s, n) == SubSeq(s, 1, n)
Suffix(s, n) == SubSeq(s, n + 1, Len(s))

\* write(2) of bytes at offset pos of a file opened without O_APPEND: a gap
\* left by another process's truncation reads back as NUL bytes
PWrite(file, pos, bytes) ==
    LET n == IF pos + Len(bytes) > Len(file) THEN pos + Len(bytes) ELSE Len(file)
    IN  [i \in 1..n |->
            IF i > pos /\ i <= pos + Len(bytes) THEN bytes[i - pos]
            ELSE IF i <= Len(file) THEN file[i]
            ELSE "NUL"]

\* what one flush of bytes does to the file, by the mode of the handle
Flush(file, c, bytes) ==
    IF bytes = <<>> THEN file
    ELSE IF c.op = "append" THEN file \o bytes
    ELSE PWrite(file, c.pos, bytes)

\* flock: LOCK_EX waits for every other holder, LOCK_SH for an exclusive one
MayLock(p, kind) ==
    \A q \in Procs \ {p} :
        /\ lfs.held[q] /= "ex"
        /\ kind = "ex" => lfs.held[q] = "none"

LogOthers == UNCHANGED <<data, wbLast, smv, qmd, qmdLast, conc, mgr, slots, workspace, htg, mix, ckp>>

\* open(path, mode): "w" truncates the file at once
LfsOpen(p, op) ==
    /\ lfs.calls[p].pc = "closed"
    /\ lfs.started < MaxLogOps
    /\ lfs' = [lfs EXCEPT
                 !.file = IF op = "write" THEN <<>> ELSE @,
                 !.started = @ + 1,
                 !.calls[p] = [pc |-> "opened", op |-> op, pos |-> 0,
                               buf |-> <<>>, result |-> <<>>,
                               base |-> lfs.completed]]
    /\ LogOthers

\* fcntl.flock(f, LOCK_EX) or fcntl.flock(f, LOCK_SH)
LfsLock(p) ==
    LET kind == IF lfs.calls[p].op = "read" THEN "sh" ELSE "ex" IN
    /\ lfs.calls[p].pc = "opened"
    /\ MayLock(p, kind)
    /\ lfs' = [lfs EXCEPT !.held[p] = kind, !.calls[p].pc = "locked"]
    /\ LogOthers

\* f.write(content): the text goes to the handle's buffer; the first k
\* tokens are written through at once (content larger than the buffer), the
\* rest waits for the close
LfsWrite(p, k) ==
    LET c == lfs.calls[p]
        content == PayloadOf(p)
    IN  /\ c.pc = "locked"
        /\ c.op \in {"write", "append"}
        /\ k \in 0..Len(content)
        /\ lfs' = [lfs EXCEPT
                     !.file = Flush(@, c, Prefix(content, k)),
                     !.calls[p] = [c EXCEPT !.pc = "transferred",
                                            !.pos = @ + k,
                                            !.buf = Suffix(content, k)]]
        /\ LogOthers

\* return f.read()
LfsRead(p) ==
    /\ lfs.calls[p].pc = "locked"
    /\ lfs.calls[p].op = "read"
    /\ lfs' = [lfs EXCEPT !.calls[p].pc = "transferred",
                          !.calls[p].result = lfs.file]
    /\ LogOthers

\* finally: fcntl.flock(f, LOCK_UN)
LfsUnlock(p) ==
    /\ lfs.calls[p].pc = "transferred"
    /\ lfs' = [lfs EXCEPT !.held[p] = "none", !.calls[p].pc = "unlocked"]
    /\ LogOthers

\* the end of the with block: the buffer is flushed, the handle closed
LfsClose(p) ==
    LET c == lfs.calls[p] IN
    /\ c.pc = "unlocked"
    /\ lfs' = [lfs EXCEPT
                 !.file = Flush(@, c, c.buf),
                 !.completed = IF c.op = "read" THEN @ ELSE @ + 1,
                 !.calls[p] = [c EXCEPT !.pc = "closed", !.buf = <<>>]]
    /\ LogOthers

InitLog ==
    /\ lfs = [pc |-> "run", file |-> <<>>,
              held |-> [p \in Procs |-> "none"],
              calls |-> [p \in Procs |-> NoCall],
              started |-> 0, completed |-> 0]
    /\ data = Idle /\ wbLast = Idle /\ smv = Idle /\ qmd = Idle
    /\ qmdLast = Idle /\ conc = Idle /\ mgr = Idle /\ slots = Idle /\ workspace = Idle /\ htg = Idle /\ mix = Idle
    /\ ckp = Idle

NextLog ==
    \/ \E p \in Procs, op \in LogOps : LfsOpen(p, op)
    \/ \E p \in Procs : LfsLock(p)
    \/ \E p \in Procs : \E k \in 0..Len(PayloadOf(p)) : LfsWrite(p, k)
    \/ \E p \in Procs : LfsRead(p)
    \/ \E p \in Procs : LfsUnlock(p)
    \/ \E p \in Procs : LfsClose(p)

SpecLog == InitLog /\ [][NextLog]_vars

RECURSIVE WholePayloads(_)
WholePayloads(s) ==
    \/ s = <<>>
    \/ \E w \in Payloads :
          /\ Len(w) <= Len(s)
          /\ Prefix(s, Len(w)) = w
          /\ WholePayloads(Suffix(s, Len(w)))

\* C13: every read of the shared file returns a concatenation of whole
\* payloads, and a read that began after some write or append had been
\* completed never finds the file empty (it does not see a truncation).
C13_WholePayloadReads ==
    \A p \in Procs :
        (lfs.calls[p].op = "read" /\ lfs.calls[p].pc \in {"transferred", "unlocked", "closed"}) =>
            /\ WholePayloads(lfs.calls[p].result)
            /\ lfs.calls[p].base > 0 => lfs.calls[p].result /= <<>>

(***************************************************************************)
(* A stand-alone SwarmSession: created with a configured agent count, then *)
(* resized and re-roled by any sequence of calls.                          *)
(***************************************************************************)
\* bound on the configured count and on the counts and list lengths passed in
MaxSlotArg == 11
\* bound on the number of calls made on the session
MaxSlotCalls == 2

\* the role lists passed to reassign_roles: the negotiated ones, and lists
\* of one repeated name up to the bound
LongRoleLists == {[i \in 1..n |-> "coder"] : n \in 1..MaxSlotArg}
\* the empty list, and lists of names in mixed case that hold several keywords
MixedRoleLists ==
    {<<>>, <<"Data Analyst", "code reviewer">>, <<"Market Researcher", "planner", "writer">>}

SlotOthers == UNCHANGED <<data, wbLast, smv, qmd, qmdLast, conc, mgr, lfs, workspace, htg, mix, ckp>>

\* session.resize_swarm(target_count)
SlotResize(target_count) ==
    /\ slots.calls < MaxSlotCalls
    /\ slots' = [slots EXCEPT !.agents = resize_swarm(@, target_count),
                              !.calls = @ + 1,
                              !.last = [op |-> "resize_swarm", new_roles |-> <<>>]]
    /\ SlotOthers

\* session.reassign_roles(new_roles)
SlotReassign(new_roles) ==
    /\ slots.calls < MaxSlotCalls
    /\ slots' = [slots EXCEPT !.agents = reassign_roles(@, new_roles),
                              !.calls = @ + 1,
                              !.last = [op |-> "reassign_roles", new_roles |-> new_roles]]
    /\ SlotOthers

\* SwarmSession.__init__ with config.max_agents = n
InitSession ==
    /\ \E n \in 0..MaxSlotArg :
          slots = [pc |-> "run", agents |-> init_default_agents(n), calls |-> 0,
                   last |-> [op |-> "init", new_roles |-> <<>>]]
    /\ data = Idle /\ wbLast = Idle /\ smv = Idle /\ qmd = Idle
    /\ qmdLast = Idle /\ conc = Idle /\ mgr = Idle /\ lfs = Idle
    /\ workspace = Idle /\ htg = Idle /\ mix = Idle
    /\ ckp = Idle

NextSession ==
    \/ \E target_count \in 0..MaxSlotArg : SlotResize(target_count)
    \/ \E new_roles \in RoleLists \cup LongRoleLists \cup MixedRoleLists : SlotReassign(new_roles)

SpecSession == InitSession /\ [][NextSession]_vars

\* C15: a session never holds more than 10 agent slots.
C15_SlotCap == Len(slots.agents) <= SlotCap

(***************************************************************************)
(* Two sessions of one workspace.  Every session's QMDMemoryStore opens    *)
(* the same sqlite file WORKSPACE_PATH/qmd (qmd.py lines 148-150); the     *)
(* whiteboard is the session's own.  Beside the store the model keeps, for *)
(* each session, the store as it would be had only that session run.       *)
(***************************************************************************)
WsSessionIds == {"s1", "s2"}
\* bound on the number of chat calls made in the workspace
MaxWsChats == 3

\* the qmd_candidates lists the agents of a chat call leave on the whiteboard
WsCandidateLists ==
    {<<>>,
     <<Candidate(<<"hi", "there">>, 90, "confirmed")>>,
     <<Candidate(<<"many", "thanks">>, 90, "confirmed"),
       Candidate(<<"hi">>, 50, "confirmed")>>}

EmptyStore == [has_fts |-> TRUE, collections |-> <<>>, documents |-> <<>>]

NoChat == [phase |-> "idle", user_input |-> <<>>, qmd_context |-> <<>>,
           alone_context |-> <<>>, qmd_candidates |-> <<>>]

\* manager.py lines 249-254: the search limit grows with the input's length
q_limit(user_input) ==
    IF Len(user_input) < 40 THEN 3
    ELSE IF Len(user_input) < 120 THEN 5
    ELSE 10

\* lines 247-264: the long-term search whose contents are joined into the
\* boot context; no collection is passed (texts here stay under the
\* 4000-character cut)
BootQmdContext(db, user_input) ==
    Join(SearchContents(db, SearchRows(db, user_input, NoCollection, q_limit(user_input))),
         <<"\n">>)

WsOthers == UNCHANGED <<data, wbLast, smv, qmd, qmdLast, conc, mgr, lfs, slots, htg, mix, ckp>>

\* chat(user_input, sid), phase 1: _boot_swarm_context
WsBoot(sid, user_input) ==
    /\ workspace.sessions[sid].phase = "idle"
    /\ workspace.chats < MaxWsChats
    /\ workspace' = [workspace EXCEPT
          !.chats = @ + 1,
          !.sessions[sid] =
              [phase |-> "run", user_input |-> user_input,
               qmd_context |-> BootQmdContext(workspace.qmd, user_input),
               alone_context |-> BootQmdContext(workspace.alone[sid], user_input),
               qmd_candidates |-> <<>>]]
    /\ WsOthers

\* phase 2: an agent's whiteboard_update tool call sets qmd_candidates
WsAgentWrite(sid, candidates) ==
    /\ workspace.sessions[sid].phase = "run"
    /\ workspace.sessions[sid].qmd_candidates = <<>>
    /\ candidates /= <<>>
    /\ workspace' = [workspace EXCEPT !.sessions[sid].qmd_candidates = candidates]
    /\ WsOthers

\* phase 3: _persist_log promotes the candidates, the whiteboard is cleared
WsConsolidate(sid) ==
    LET candidates == workspace.sessions[sid].qmd_candidates IN
    /\ workspace.sessions[sid].phase = "run"
    /\ workspace' = [workspace EXCEPT
          !.qmd = PromoteAll(@, candidates, PromotedIndices(candidates)),
          !.alone[sid] = PromoteAll(@, candidates, PromotedIndices(candidates)),
          !.sessions[sid].qmd_candidates = <<>>,
          !.sessions[sid].phase = "idle"]
    /\ WsOthers

InitWorkspace ==
    /\ workspace = [pc |-> "run", qmd |-> EmptyStore,
                    alone |-> [sid \in WsSessionIds |-> EmptyStore],
                    sessions |-> [sid \in WsSessionIds |-> NoChat],
                    chats |-> 0]
    /\ data = Idle /\ wbLast = Idle /\ smv = Idle /\ qmd = Idle /\ qmdLast = Idle
    /\ conc = Idle /\ mgr = Idle /\ lfs = Idle /\ slots = Idle
    /\ htg = Idle /\ mix = Idle
    /\ ckp = Idle

NextWorkspace ==
    \/ \E sid \in WsSessionIds, user_input \in UserInputs : WsBoot(sid, user_input)
    \/ \E sid \in WsSessionIds, candidates \in WsCandidateLists : WsAgentWrite(sid, candidates)
    \/ \E sid \in WsSessionIds : WsConsolidate(sid)

SpecWorkspace == InitWorkspace /\ [][NextWorkspace]_vars

\* C16: sessions are isolated: the memory context a chat call assembles at
\* boot is the one it would assemble had no other session ever run.
C16_SessionIsolation ==
    \A sid \in WsSessionIds :
        workspace.sessions[sid].qmd_context = workspace.sessions[sid].alone_context

\* C17: whenever run returns, its result is the state-tagged history: one
\* "[name] output" entry per executed state, in execution order, joined.
C17_TaggedHistory ==
    smv.pc = "done" => smv.result = JoinHistory(smv.history)

\* whether a transition resolves for the state run executed last
LastResolves ==
    LET last == smv.history[Len(smv.history)].name
        transitions == smv.graph.states[last]
    IN  IF DOMAIN transitions = {} THEN FALSE
        ELSE IF DOMAIN transitions = {"default"} THEN TRUE
        ELSE /\ smv.decisions /= <<>>
             /\ ResolveTransition(transitions, smv.decisions[Len(smv.decisions)]).found

\* the two bounds of C18, which hold: at most max_steps executed states and
\* at most 2*max_steps agent calls
C18_StepBounds ==
    /\ Len(smv.history) <= smv.max_steps
    /\ smv.calls <= 2 * smv.max_steps

\* C18: run executes at most max_steps states and makes at most 2*max_steps
\* agent calls, and when it returns before max_steps is exhausted, no
\* transition resolved for the state it executed last.
C18_StepsAndStops ==
    /\ C18_StepBounds
    /\ (smv.pc = "done" /\ smv.step < smv.max_steps /\ smv.history /= <<>>) => ~LastResolves

\* a text with no whitespace at either end
Trimmed(t) == t = <<>> \/ (Head(t) \notin Whitespace /\ t[Len(t)] \notin Whitespace)

\* one agent call of run that returns, as C19 describes it
C19_Step ==
    LET transitions == smv.graph.states[smv.current_state]
        labels == DOMAIN transitions
    IN  /\ (smv.pc = "loop" /\ Len(smv'.history) = Len(smv.history) + 1) =>
              /\ smv'.calls = smv.calls + 1
              /\ smv'.decisions = smv.decisions
              /\ IF labels = {} THEN smv'.pc = "done"
                 ELSE IF labels = {"default"}
                 THEN smv'.pc = "loop" /\ smv'.current_state = transitions["default"]
                 ELSE smv'.pc = "route" /\ smv'.current_state = smv.current_state
        /\ (smv.pc = "route" /\ smv'.pc /= "raised") =>
              LET decision == smv'.decisions[Len(smv'.decisions)] IN
              /\ smv'.calls = smv.calls + 1
              /\ Len(smv'.decisions) = Len(smv.decisions) + 1
              /\ smv'.history = smv.history
              /\ Trimmed(decision)
              /\ IF \E label \in labels : <<label>> = decision
                 THEN /\ smv'.pc = "loop"
                      /\ \E label \in labels :
                            <<label>> = decision /\ smv'.current_state = transitions[label]
                 ELSE IF "default" \in labels
                 THEN smv'.pc = "loop" /\ smv'.current_state = transitions["default"]
                 ELSE smv'.pc = "done"

\* C19: a state whose only transition is "default" follows it after one agent
\* call; any other state with transitions makes one more call, the routing
\* call, and follows the transition whose label equals the trimmed reply
\* (case-sensitively), else "default" if there is one, else the run ends; a
\* state with no transitions makes one call and ends the run.
C19_TransitionResolution == [][C19_Step]_vars

\* a routed state answered "pass" does not match "PASS" and follows "default"
C19_Witness ==
    /\ smv.graph = GraphFallback
    /\ smv.decisions = <<<<"pass">>>>
    /\ smv.visited = <<"draft", "draft">>
    /\ smv.calls = 2
    /\ smv.pc = "loop"

\* C20: the state_machine architecture runs a three-state graph, and after a
\* successful review (the router's decision is PASS) a third state, the
\* summarize state, is executed as the last step of the run.
C20_SummarizeLast ==
    (/\ mgr.frames /= <<>>
     /\ mgr.frames[Len(mgr.frames)].run = "state_machine"
     /\ smv.pc = "done"
     /\ smv.decisions /= <<>>
     /\ smv.decisions[Len(smv.decisions)] = <<"PASS">>) =>
        /\ Cardinality(DOMAIN smv.graph.states) = 3
        /\ smv.history[Len(smv.history)].name \notin {smv.graph.initial, "review"}

\* C21: a chat call on a session whose architecture is long_horizon runs the
\* task-graph planner (plan, then execute), not another flow.
C21_LongHorizonDelegates ==
    (/\ mgr.frames /= <<>>
     /\ mgr.frames[Len(mgr.frames)].sid \in DOMAIN mgr.sessions
     /\ mgr.sessions[mgr.frames[Len(mgr.frames)].sid].architecture = "long_horizon") =>
        mgr.frames[Len(mgr.frames)].run = "long_horizon"

(***************************************************************************)
(* HierarchicalTaskGraph (src/swarmbot/middleware/long_horizon.py): plan   *)
(* fills self.tasks from the planning reply, execute scans the tasks.      *)
(* self.tasks is a dict in insertion order: a sequence of SubTask records. *)
(* A planning reply is given by what json.loads makes of the text between  *)
(* its first "[" and last "]": nothing (no array, or invalid JSON) or a    *)
(* list of entries, each with the fields it carries.                       *)
(***************************************************************************)
SubTask(id, description, dependencies) ==
    [id |-> id, description |-> description, dependencies |-> dependencies,
     status |-> "pending", result |-> <<>>]

\* an entry of the planned array; fields are the keys the entry has
Entry(id, dependencies) ==
    [fields |-> {"id", "description", "dependencies"}, id |-> id,
     description |-> <<"do ", id>>, dependencies |-> dependencies]
EntryNoDeps(id) ==
    [fields |-> {"id", "description"}, id |-> id,
     description |-> <<"do ", id>>, dependencies |-> <<>>]
EntryNoDescription(id) ==
    [fields |-> {"id", "dependencies"}, id |-> id,
     description |-> <<>>, dependencies |-> <<>>]

NoArray == [kind |-> "no_array", items |-> <<>>]
InvalidJson == [kind |-> "invalid_json", items |-> <<>>]
Array(items) == [kind |-> "array", items |-> items]

\* the planning replies of the model
PlanReplies ==
    {NoArray, InvalidJson, Array(<<>>),
     \* a chain listed in dependency order
     Array(<<EntryNoDeps("step1"), Entry("step2", <<"step1">>),
             Entry("step3", <<"step1", "step2">>)>>),
     \* a chain listed against its dependency order
     Array(<<Entry("step3", <<"step1", "step2">>), Entry("step2", <<"step1">>),
             Entry("step1", <<>>)>>),
     \* a cycle beside a free task
     Array(<<Entry("step1", <<"step2">>), Entry("step2", <<"step1">>),
             Entry("step3", <<>>)>>),
     \* a dependency on an id the graph does not hold
     Array(<<Entry("step1", <<"step0">>), Entry("step2", <<"step1">>),
             Entry("step3", <<>>)>>),
     \* an entry without description after a valid one
     Array(<<Entry("step1", <<>>), EntryNoDescription("step2")>>),
     \* the same id twice
     Array(<<Entry("step1", <<>>), Entry("step1", <<"step2">>), Entry("step2", <<>>)>>)}

Goals == {<<"goal">>}

\* self.tasks[id] = task: a present key keeps its place
TasksPut(tasks, task) ==
    IF \E i \in 1..Len(tasks) : tasks[i].id = task.id
    THEN [i \in 1..Len(tasks) |-> IF tasks[i].id = task.id THEN task ELSE tasks[i]]
    ELSE Append(tasks, task)

\* lines 135-140: the loop over the entries; item["id"] or item["description"]
\* of an entry without that key raises, the entries before it are kept
RECURSIVE PlanEntries(_, _)
PlanEntries(tasks, items) ==
    IF items = <<>> THEN [tasks |-> tasks, raised |-> FALSE]
    ELSE IF ~({"id", "description"} \subseteq Head(items).fields)
    THEN [tasks |-> tasks, raised |-> TRUE]
    ELSE PlanEntries(
             TasksPut(tasks, SubTask(Head(items).id, Head(items).description,
                                     IF "dependencies" \in Head(items).fields
                                     THEN Head(items).dependencies ELSE <<>>)),
             Tail(items))

\* lines 130-144: parse, fill, and on any exception add the root task
plan(tasks, reply, user_goal) ==
    LET r == IF reply.kind = "array" THEN PlanEntries(tasks, reply.items)
             ELSE [tasks |-> tasks, raised |-> TRUE]
    IN  IF r.raised THEN TasksPut(r.tasks, SubTask("root", user_goal, <<>>)) ELSE r.tasks

\* a plausible slip: one completed dependency is enough
Eligible_any(task, completed) ==
    task.dependencies = <<>> \/ \E i \in 1..Len(task.dependencies) : task.dependencies[i] \in completed

\* line 164: all(dep in completed for dep in task.dependencies)
Eligible(task, completed) ==
    \A i \in 1..Len(task.dependencies) : task.dependencies[i] \in completed

\* the task with an id (a dict lookup)
TaskOf(tasks, id) == tasks[CHOOSE i \in 1..Len(tasks) : tasks[i].id = id]

\* line 169: one line per dependency, with the result of that task
ContextDeps(tasks, task) ==
    [i \in 1..Len(task.dependencies) |->
        [dep |-> task.dependencies[i],
         result |-> IF \E j \in 1..Len(tasks) : tasks[j].id = task.dependencies[i]
                    THEN TaskOf(tasks, task.dependencies[i]).result ELSE <<"KeyError">>]]

\* the skills find_best_skill answers with
ExecSkills == {"llm_reasoning", "qmd_search"}

GraphOthers ==
    UNCHANGED <<data, wbLast, smv, qmd, qmdLast, conc, mgr, lfs, slots, workspace, mix, ckp>>

\* graph.plan(user_goal) with the llm's reply
GraphPlan(reply) ==
    /\ htg.pc = "new"
    /\ htg' = [htg EXCEPT !.pc = "planned", !.reply = reply,
                          !.tasks = plan(@, reply, htg.goal)]
    /\ GraphOthers

\* a plausible slip: the cap is one scan short of the task count
max_cycles_short(tasks) == Len(tasks) - 1

\* line 152: max_cycles = len(self.tasks) * 2
max_cycles(tasks) == Len(tasks) * 2

\* graph.execute(agent), lines 148-153
GraphExecute ==
    /\ htg.pc = "planned"
    /\ htg' = [htg EXCEPT !.pc = "while", !.max_cycles = max_cycles(htg.tasks)]
    /\ GraphOthers

\* line 155: the loop test holds, a scan begins
ExecScan ==
    /\ htg.pc = "while"
    /\ Cardinality(htg.completed) < Len(htg.tasks) /\ htg.cycles < htg.max_cycles
    /\ htg' = [htg EXCEPT !.pc = "for", !.cycles = @ + 1, !.progress = FALSE, !.pos = 1]
    /\ GraphOthers

\* lines 155 and 191: the loop test fails, the sections are joined
ExecReturn ==
    /\ htg.pc = "while"
    /\ ~(Cardinality(htg.completed) < Len(htg.tasks) /\ htg.cycles < htg.max_cycles)
    /\ htg' = [htg EXCEPT !.pc = "done"]
    /\ GraphOthers

\* lines 159-164: a completed task, or one with an open dependency, is passed
ExecSkip ==
    /\ htg.pc = "for" /\ htg.pos <= Len(htg.tasks)
    /\ \/ htg.tasks[htg.pos].id \in htg.completed
       \/ ~Eligible(htg.tasks[htg.pos], htg.completed)
    /\ htg' = [htg EXCEPT !.pos = @ + 1]
    /\ GraphOthers

\* lines 164-186: the task is run: skill, prompt, agent.step, bookkeeping
ExecRun(skill) ==
    LET task == htg.tasks[htg.pos]
        result == ReplyText(Len(htg.runs) + 1)
    IN  /\ htg.pc = "for" /\ htg.pos <= Len(htg.tasks)
        /\ task.id \notin htg.completed
        /\ Eligible(task, htg.completed)
        /\ htg' = [htg EXCEPT
              !.tasks[htg.pos] = [task EXCEPT !.result = result, !.status = "completed"],
              !.runs = Append(@, [id |-> task.id, context_deps |-> ContextDeps(htg.tasks, task),
                                  before |-> htg.completed, scan |-> htg.cycles]),
              !.completed = @ \cup {task.id},
              !.results = Append(@, [id |-> task.id, skill |-> skill, result |-> result]),
              !.progress = TRUE,
              !.pos = @ + 1]
        /\ GraphOthers

\* agent.step (or the skill lookup) raises: execute has no handler
ExecRaises ==
    /\ htg.pc = "for" /\ htg.pos <= Len(htg.tasks)
    /\ htg.tasks[htg.pos].id \notin htg.completed
    /\ Eligible(htg.tasks[htg.pos], htg.completed)
    /\ htg' = [htg EXCEPT !.pc = "raised"]
    /\ GraphOthers

\* a plausible slip: a scan without progress does not leave the loop
ExecScanEnd_noBreak ==
    /\ htg.pc = "for" /\ htg.pos > Len(htg.tasks)
    /\ htg' = [htg EXCEPT !.pc = "while",
                          !.idle_scans = IF htg.progress THEN @ ELSE @ + 1]
    /\ GraphOthers

\* lines 188-189: the scan is over; without progress the loop is left
ExecScanEnd ==
    /\ htg.pc = "for" /\ htg.pos > Len(htg.tasks)
    /\ htg' = [htg EXCEPT !.pc = IF htg.progress THEN "while" ELSE "done",
                          !.idle_scans = IF htg.progress THEN @ ELSE @ + 1]
    /\ GraphOthers

InitGraph ==
    /\ \E goal \in Goals :
          htg = [pc |-> "new", goal |-> goal, reply |-> NoArray, tasks |-> <<>>,
                 completed |-> {}, results |-> <<>>, cycles |-> 0, max_cycles |-> 0,
                 pos |-> 0, progress |-> FALSE, runs |-> <<>>, idle_scans |-> 0]
    /\ data = Idle /\ wbLast = Idle /\ smv = Idle /\ qmd = Idle /\ qmdLast = Idle
    /\ conc = Idle /\ mgr = Idle /\ lfs = Idle /\ slots = Idle /\ workspace = Idle
    /\ mix = Idle
    /\ ckp = Idle

NextGraph ==
    \/ \E reply \in PlanReplies : GraphPlan(reply)
    \/ GraphExecute
    \/ ExecScan
    \/ ExecReturn
    \/ ExecSkip
    \/ \E skill \in ExecSkills : ExecRun(skill)
    \/ ExecRaises
    \/ ExecScanEnd

SpecGraph == InitGraph /\ [][NextGraph]_vars

\* the scheduler runs the one thread of execute until it returns or raises
SpecGraphFair == SpecGraph /\ WF_vars(NextGraph)

\* the position of the run of a task, 0 when it was not run
RunIndex(id) ==
    IF \E j \in 1..Len(htg.runs) : htg.runs[j].id = id
    THEN CHOOSE j \in 1..Len(htg.runs) : htg.runs[j].id = id
    ELSE 0

\* C22: a task is run only after each of its dependencies has completed, each
\* task is run at most once, the prompt of a task carries the results of
\* exactly its dependencies, and the result sections follow the order of the
\* runs, so a task's section comes after the sections of its dependencies.
C22_DependencyOrder ==
    /\ \A i \in 1..Len(htg.runs) :
          LET run == htg.runs[i]
              task == TaskOf(htg.tasks, run.id)
              deps == task.dependencies
          IN  /\ \A j \in 1..Len(htg.runs) : htg.runs[j].id = run.id => j = i
              /\ \A k \in 1..Len(deps) :
                    /\ RunIndex(deps[k]) > 0
                    /\ RunIndex(deps[k]) < i
                    /\ deps[k] \in run.before
              /\ Len(run.context_deps) = Len(deps)
              /\ \A k \in 1..Len(deps) :
                    /\ run.context_deps[k].dep = deps[k]
                    /\ run.context_deps[k].result = htg.results[RunIndex(deps[k])].result
    /\ Len(htg.results) = Len(htg.runs)
    /\ \A i \in 1..Len(htg.results) : htg.results[i].id = htg.runs[i].id

\* a chain listed against its order is run in dependency order, one task a scan
C22_Witness ==
    /\ htg.pc = "done"
    /\ Len(htg.tasks) = 3 /\ htg.tasks[1].id = "step3"
    /\ htg.tasks[1].dependencies = <<"step1", "step2">>
    /\ [i \in 1..Len(htg.results) |-> htg.results[i].id] = <<"step1", "step2", "step3">>
    /\ htg.runs[3].context_deps =
          <<[dep |-> "step1", result |-> htg.results[1].result],
            [dep |-> "step2", result |-> htg.results[2].result]>>
    /\ htg.cycles = 3

\* the ids of the tasks all of whose dependencies are in done
Ready(done) ==
    {htg.tasks[i].id : i \in {j \in 1..Len(htg.tasks) :
        \A k \in 1..Len(htg.tasks[j].dependencies) : htg.tasks[j].dependencies[k] \in done}}

\* the tasks that can ever be run: those not on a dependency cycle and not
\* depending, directly or transitively, on an id the graph does not hold
RECURSIVE RunnableFrom(_)
RunnableFrom(done) ==
    IF Ready(done) \subseteq done THEN done ELSE RunnableFrom(done \cup Ready(done))

Runnable == RunnableFrom({})

C23_Bounded ==
    /\ htg.cycles <= 2 * Len(htg.tasks)
    /\ htg.idle_scans <= 1
    /\ htg.idle_scans = 1 => htg.pc \in {"for", "done"} /\ ~htg.progress
    /\ htg.completed \subseteq Runnable
    /\ {htg.results[i].id : i \in 1..Len(htg.results)} = htg.completed
    /\ htg.pc = "done" => htg.completed = Runnable

\* C23: execute terminates, after at most 2 * task_count scans and at the
\* first scan in which no task is run; a task on a dependency cycle or behind
\* an id the graph does not hold is never run, and execute returns the
\* sections of the tasks that were run.
C23_ScansTerminate ==
    /\ []C23_Bounded
    /\ <>(htg.pc \in {"done", "raised"})

\* a graph with a cycle beside a free task: one task run, one idle scan
C23_Witness ==
    /\ htg.pc = "done"
    /\ Len(htg.tasks) = 3
    /\ htg.tasks[1].dependencies = <<"step2">>
    /\ htg.tasks[2].dependencies = <<"step1">>
    /\ htg.completed = {"step3"}
    /\ htg.cycles = 2
    /\ htg.idle_scans = 1

\* the reply cannot be parsed into task entries
Unparseable(reply) ==
    \/ reply.kind /= "array"
    \/ \E i \in 1..Len(reply.items) : ~({"id", "description"} \subseteq reply.items[i].fields)

\* C24: after plan(goal) with a reply that cannot be parsed into task entries
\* the graph holds exactly one task, the root task: no dependencies, the
\* whole goal as its description.
C24_RootOnly ==
    (htg.pc = "planned" /\ Unparseable(htg.reply)) =>
        htg.tasks = <<SubTask("root", htg.goal, <<>>)>>

(***************************************************************************)
(* _chat_mixture (manager.py lines 572-642): the round count decision, the *)
(* expert rounds on the pool, the judge after a round, the extension check *)
(***************************************************************************)
\* bound on the number of agent calls of one mixture run that raise
MaxMixFaults == 1
\* expert failures are injected in runs of at most this many planned rounds
MaxFaultyRounds == 3

MixOthers ==
    UNCHANGED <<data, wbLast, smv, qmd, qmdLast, conc, mgr, lfs, slots, workspace, htg, ckp>>

MixQueued == [i \in 1..Len(mix.agents) |-> "queued"]
MixInProgress == {i \in 1..Len(mix.agents) : mix.task[i] = "running"}
MixAllCollected == \A i \in 1..Len(mix.agents) : mix.task[i] = "collected"
MixMayRaise == mix.faults < MaxMixFaults

\* lines 579-586: the first agent is asked for the round count
MixDecide(ok, reply) ==
    /\ mix.pc = "decide"
    /\ ~ok => MixMayRaise
    /\ mix' = [mix EXCEPT !.pc = "round",
                          !.rounds = ParseRounds(ok, reply),
                          !.decision = [ok |-> ok, reply |-> IF ok THEN reply ELSE <<>>],
                          !.faults = IF ok THEN @ ELSE @ + 1]
    /\ MixOthers

\* line 603: a free worker of the pool takes the next submitted expert
MixStart(i) ==
    /\ mix.pc = "round"
    /\ mix.task[i] = "queued"
    /\ \A j \in 1..(i - 1) : mix.task[j] /= "queued"
    /\ Cardinality(MixInProgress) < PoolSize(mix.agents)
    /\ mix' = [mix EXCEPT !.task[i] = "running",
                          !.invoked[i] = @ + 1]
    /\ MixOthers

\* line 601: slot.agent.step(prompt) returns, the tagged text is the result
MixStepReturns(i) ==
    /\ mix.pc = "round"
    /\ mix.task[i] = "running"
    /\ mix' = [mix EXCEPT !.task[i] = "finished"]
    /\ MixOthers

\* slot.agent.step(prompt) raises: the future holds the exception
MixStepRaises(i) ==
    /\ mix.pc = "round"
    /\ mix.task[i] = "running"
    /\ MixMayRaise /\ mix.rounds <= MaxFaultyRounds
    /\ mix' = [mix EXCEPT !.task[i] = "failed", !.faults = @ + 1]
    /\ MixOthers

\* lines 605-611: the main thread collects one completed future
MixCollect(i) ==
    /\ mix.pc = "round"
    /\ mix.task[i] \in {"finished", "failed"}
    /\ mix' = [mix EXCEPT
          !.task[i] = "collected",
          !.drafts = Append(@, IF mix.task[i] = "failed"
                               THEN [kind |-> "error", slot |-> i, round |-> mix.r]
                               ELSE [kind |-> "result", slot |-> i, round |-> mix.r]),
          !.history_acc = IF mix.task[i] = "failed" THEN @
                          ELSE Append(@, [kind |-> "result", slot |-> i, round |-> mix.r])]
    /\ MixOthers

\* lines 613-619: after a round that is not the last planned one the judge is
\* asked; a short YES leaves the loop.  The call has no handler.
MixJudge(ok, decision) ==
    /\ mix.pc = "round"
    /\ MixAllCollected
    /\ mix.r < mix.rounds - 1
    /\ ~ok => MixMayRaise
    /\ mix' = IF ~ok
              THEN [mix EXCEPT !.pc = "raised", !.faults = @ + 1, !.executed = mix.r + 1]
              ELSE IF ShortYes(decision)
              THEN [mix EXCEPT !.pc = "extension", !.executed = mix.r + 1,
                               !.last_decision = decision,
                               !.judged = Append(@, [round |-> mix.r, stopped |-> TRUE])]
              ELSE [mix EXCEPT !.r = @ + 1, !.drafts = <<>>, !.task = MixQueued,
                               !.last_decision = decision,
                               !.judged = Append(@, [round |-> mix.r, stopped |-> FALSE])]
    /\ MixOthers

\* line 588: the last planned round is over, the for loop ends
MixRoundsOver ==
    /\ mix.pc = "round"
    /\ MixAllCollected
    /\ ~(mix.r < mix.rounds - 1)
    /\ mix' = [mix EXCEPT !.pc = "extension", !.executed = mix.r + 1]
    /\ MixOthers

\* what the judge answers to the extension question
ExtensionReplies == {<<"0">>, <<"3">>, <<"NO">>}

\* lines 621-640: the extension check; its loop body is "pass"
MixExtension(ok, reply) ==
    /\ mix.pc = "extension"
    /\ ~ok => MixMayRaise
    /\ mix' = [mix EXCEPT
          !.pc = "consensus",
          !.ext_rounds = IF ok /\ \E i \in 1..Len(reply) : reply[i] \in {"0", "1", "2", "3"}
                         THEN Min(NumberOf(reply[CHOOSE i \in 1..Len(reply) :
                                      /\ reply[i] \in {"0", "1", "2", "3"}
                                      /\ \A j \in 1..(i - 1) : reply[j] \notin {"0", "1", "2", "3"}]),
                                  3)
                         ELSE 0,
          !.faults = IF ok THEN @ ELSE @ + 1]
    /\ MixOthers

MixInit ==
    \E n \in 1..MaxAgents :
        mix = [pc |-> "decide", agents |-> init_default_agents(n),
               rounds |-> DefaultRounds, decision |-> [ok |-> TRUE, reply |-> <<>>],
               r |-> 0, task |-> [i \in 1..n |-> "queued"],
               invoked |-> [i \in 1..n |-> 0],
               history_acc |-> <<>>, drafts |-> <<>>, judged |-> <<>>,
               last_decision |-> [text |-> <<>>, len |-> 0],
               executed |-> 0, ext_rounds |-> 0, faults |-> 0]

InitMix ==
    /\ MixInit
    /\ data = Idle /\ wbLast = Idle /\ smv = Idle /\ qmd = Idle /\ qmdLast = Idle
    /\ conc = Idle /\ mgr = Idle /\ lfs = Idle /\ slots = Idle /\ workspace = Idle
    /\ htg = Idle
    /\ ckp = Idle

NextMix ==
    \/ \E ok \in BOOLEAN, reply \in RoundReplies : MixDecide(ok, reply)
    \/ \E i \in 1..MaxAgents : i <= Len(mix.agents) /\ MixStart(i)
    \/ \E i \in 1..MaxAgents : i <= Len(mix.agents) /\ MixStepReturns(i)
    \/ \E i \in 1..MaxAgents : i <= Len(mix.agents) /\ MixStepRaises(i)
    \/ \E i \in 1..MaxAgents : i <= Len(mix.agents) /\ MixCollect(i)
    \/ \E ok \in BOOLEAN, decision \in JudgeReplies : MixJudge(ok, decision)
    \/ MixRoundsOver
    \/ \E ok \in BOOLEAN, reply \in ExtensionReplies : MixExtension(ok, reply)

SpecMix == InitMix /\ [][NextMix]_vars

(***************************************************************************)
(* The two architectures that run their agents on a worker pool: a run of  *)
(* _chat_concurrent or a run of _chat_mixture.                             *)
(***************************************************************************)
InitPools == InitConc \/ InitMix

NextPools ==
    \/ conc.pc /= "idle" /\ NextConc
    \/ mix.pc /= "idle" /\ NextMix

SpecPools == InitPools /\ [][NextPools]_vars

\* a slot has been invoked once in every round before the current one, and
\* once in the current round unless its task still waits for a worker
InvokedOncePerRound(p) ==
    \A i \in 1..Len(p.agents) :
        p.invoked[i] = p.r + (IF p.task[i] = "queued" THEN 0 ELSE 1)

\* no more than min(agent_count, 2) invocations are in progress
WithinPool(p) ==
    Cardinality({i \in 1..Len(p.agents) : p.task[i] = "running"})
        <= (IF Len(p.agents) < 2 THEN Len(p.agents) ELSE 2)

\* C25: in each round of the concurrent and of the mixture architecture every
\* slot is invoked exactly once, and never are more than min(agent_count, 2)
\* invocations in progress at the same time.
C25_PoolBound ==
    /\ IF conc.pc = "idle" THEN TRUE ELSE InvokedOncePerRound(conc) /\ WithinPool(conc)
    /\ IF mix.pc = "idle" THEN TRUE ELSE InvokedOncePerRound(mix) /\ WithinPool(mix)

\* three experts in the second round of a mixture: two run, the third waits
C25_Witness ==
    /\ mix.pc = "round"
    /\ Len(mix.agents) = 3
    /\ mix.r = 1
    /\ mix.task = <<"running", "running", "queued">>
    /\ mix.invoked = <<2, 2, 1>>

\* the integers in 1..10 a reply names, in reading order
IntegersNamed(reply) == SelectSeq(reply, LAMBDA w : NumberOf(w) \in 1..10)

\* the round count C26 describes for the first agent's answer
PlannedRounds ==
    IF mix.decision.ok /\ IntegersNamed(mix.decision.reply) /= <<>>
    THEN NumberOf(Head(IntegersNamed(mix.decision.reply)))
    ELSE 5

\* a judge reply that is a short YES: the one word, in any letter case, with
\* blanks and punctuation around it at most, and under 20 characters
IsShortYes(decision) ==
    /\ SelectSeq(decision.text, LAMBDA w : w \notin Whitespace \cup {",", "."}) \in {<<"YES">>, <<"yes">>}
    /\ decision.len < 20

MixRoundsDone == mix.pc \in {"extension", "consensus"}

\* the parts of C26 that hold: the planned count, the bounds on the executed
\* rounds, when the judge is consulted, and that nothing after the rounds
\* invokes an expert
C26_RoundStructure ==
    /\ mix.pc /= "decide" => mix.rounds = PlannedRounds
    /\ mix.r < mix.rounds
    /\ \A k \in 1..Len(mix.judged) :
          /\ mix.judged[k].round = k - 1
          /\ mix.judged[k].round < mix.rounds - 1
          /\ k < Len(mix.judged) => ~mix.judged[k].stopped
    /\ mix.pc = "round" => Len(mix.judged) = mix.r
    /\ MixRoundsDone =>
          /\ mix.executed >= 1 /\ mix.executed <= mix.rounds
          /\ mix.executed = mix.r + 1
          /\ Len(mix.judged) = IF mix.executed = mix.rounds THEN mix.rounds - 1 ELSE mix.executed
          /\ mix.executed < mix.rounds <=> (mix.judged /= <<>> /\ mix.judged[Len(mix.judged)].stopped)
          /\ \A i \in 1..Len(mix.agents) : mix.invoked[i] = mix.executed

\* C26: the planned round count is the integer in 1..10 named by the first
\* agent, 5 when it names none or its call fails; between 1 and that many
\* expert rounds are executed; the judge is consulted after each round except
\* the last planned one; the rounds stop right after the first round whose
\* judge reply is a short YES; the extension check invokes no expert.
C26_MixtureRounds ==
    /\ C26_RoundStructure
    /\ mix.judged /= <<>> =>
          mix.judged[Len(mix.judged)].stopped = IsShortYes(mix.last_decision)


(***************************************************************************)
(* Properties of the group chat                                            *)
(***************************************************************************)
\* the tag of the k-th turn of a group chat over n slots
GroupTag(k, n, role) == "[round " \o ToString(((k - 1) \div n) + 1) \o " - " \o role \o "]"

\* the turns of a group chat so far follow the slots round-robin, the first
\* prompted with the user input and each later one with the previous reply
GroupTurnsInOrder(f, agents) ==
    LET n == Len(agents)
        turns == Min(Len(f.calls), GroupRounds * n)
    IN  \A k \in 1..turns :
            /\ f.calls[k].slot = ((k - 1) % n) + 1
            /\ f.calls[k].role = agents[f.calls[k].slot].role
            /\ f.calls[k].prompt = IF k = 1 THEN f.user_input ELSE f.calls[k - 1].reply

\* once the rounds are over, the outputs are the 3 x N tagged turns in the
\* order of the calls, and they are what the moderator is given
GroupTurnsToConsensus(f, agents) ==
    LET n == Len(agents)
        total == GroupRounds * n
    IN  IF f.pc = "group" THEN Len(f.calls) < total /\ Len(f.outputs) = Len(f.calls)
        ELSE /\ Len(f.calls) >= total
             /\ Len(f.outputs) = total
             /\ \A k \in 1..total :
                    f.outputs[k] = <<GroupTag(k, n, f.calls[k].role), "\n">> \o f.calls[k].reply
             /\ f.pc = "consensus" => Len(f.calls) = total
             /\ Len(f.calls) > total =>
                    /\ f.calls[total + 1].role = "consensus_moderator"
                    /\ f.calls[total + 1].prompt = ConsensusPrompt(f)

\* C27: a group chat makes exactly 3 x N agent calls in round-robin slot
\* order, the first prompted with the user input and every later one with only
\* the reply of the call before it; afterwards the 3 x N tagged turns go to
\* consensus in the order they were produced.
C27_GroupChat ==
    (mgr.frames /= <<>> /\ Top.run = "group_chat") =>
        /\ GroupTurnsInOrder(Top, Agents)
        /\ GroupTurnsToConsensus(Top, Agents)

\* a group chat over two slots has finished its rounds
C27_Witness ==
    /\ mgr.frames /= <<>> /\ Top.run = "group_chat" /\ Top.pc = "consensus"
    /\ Len(Agents) = 2 /\ Len(Top.calls) = 6


(***************************************************************************)
(* Properties of the consensus synthesis                                   *)
(***************************************************************************)
\* the calls of a flow that ask for the synthesis or its refinement, in order
IsModeratorCall(c) ==
    /\ c.prompt /= <<>>
    /\ c.prompt[1] \in {"Synthesize final answer from agent outputs.", "Previous consensus weak: "}
ModeratorCalls(f) == SelectSeq(f.calls, IsModeratorCall)

\* an answer that signals low confidence
LowConfidence(answer) ==
    Contains(Lower(answer), "insufficient info") \/ Contains(Lower(answer), "conflict")

\* the flow has left the synthesis with a result
Synthesized(f) ==
    /\ ModeratorCalls(f) /= <<>>
    /\ f.pc \in {"consolidate", "interpret"}

\* what holds of the synthesis whatever the moderator answers: at most two
\* calls, the second one asked to refine the first answer and made only after
\* an answer with "insufficient info", and the result is the last answer
C28_RetryStructure ==
    (mgr.frames /= <<>> /\ ModeratorCalls(Top) /= <<>>) =>
        LET calls == ModeratorCalls(Top)
        IN  /\ Len(calls) <= 2
            /\ Top.pc = "consensus_retry" =>
                   Len(calls) = 1 /\ Contains(Lower(calls[1].reply), "insufficient info")
            /\ Len(calls) = 2 =>
                   /\ Contains(Lower(calls[1].reply), "insufficient info")
                   /\ calls[2].prompt = <<"Previous consensus weak: ">> \o calls[1].reply
                                        \o <<"\nRefine answer.">>
            /\ Synthesized(Top) => Top.swarm_result = calls[Len(calls)].reply

\* C28: consensus synthesis issues exactly one refinement retry when the first
\* answer contains "insufficient info" or "conflict" in any letter case, none
\* when it contains neither, never a second one, and returns the last answer.
C28_RetryOnLowConfidence ==
    /\ C28_RetryStructure
    /\ (mgr.frames /= <<>> /\ Synthesized(Top)) =>
           LET calls == ModeratorCalls(Top)
           IN  Len(calls) = IF LowConfidence(calls[1].reply) THEN 2 ELSE 1


(***************************************************************************)
(* Properties of the relabelling of the first slot                         *)
(***************************************************************************)
\* the call sites where the first slot works under a replaced label
RelabelSites == {"consensus", "consensus_retry", "interpret"}

\* a step of the synthesis or of the interpretation leaves every slot of the
\* session with the role it had before the step
C29_Step ==
    (mgr.frames /= <<>> /\ Top.pc \in RelabelSites) =>
        \A i \in 1..Len(Agents) :
            mgr'.sessions[Top.sid].agents[i].role = Agents[i].role

\* C29: the relabelling of the first slot is temporary: when the consensus
\* synthesis or the interpretation pass finishes, by returning or by an
\* exception of the agent's step, every slot has the role it had before.
C29_RelabelTemporary == [][C29_Step]_vars


(***************************************************************************)
(* Properties of the auto architecture                                     *)
(***************************************************************************)
\* the architectures the planner's answer can select
AutoChoices == {"concurrent", "mixture", "group_chat", "hierarchical"}

\* the activation of chat that runs the auto flow has made both decisions
AutoDecided(f) == f.run = "auto" /\ f.pc \in {"auto_wait", "consolidate", "interpret"}

\* what holds of the auto flow whatever the planner answers: the session
\* architecture is fixed to one of the four names before the roles are asked
\* for, chat is entered once more and runs that architecture, and no
\* activation nests below it
C30_AutoStructure ==
    /\ Len(mgr.frames) <= 2
    /\ mgr.frames /= <<>> =>
        /\ (mgr.frames[1].run = "auto" /\ mgr.frames[1].pc /= "auto_arch") =>
               mgr.sessions[mgr.frames[1].sid].architecture \in AutoChoices
        /\ Len(mgr.frames) = 2 =>
               /\ mgr.frames[1].run = "auto" /\ mgr.frames[1].pc = "auto_wait"
               /\ Top.run = Sess.architecture
        /\ (mgr.frames[1].run = "auto" /\ mgr.frames[1].pc = "auto_wait") => Len(mgr.frames) = 2
    /\ (mgr.last.status = "returned" /\ mgr.last.sid \in DOMAIN mgr.sessions) =>
           mgr.sessions[mgr.last.sid].architecture /= "auto"

\* C30: a chat call on an auto session fixes the architecture to one of
\* concurrent, mixture, group_chat or hierarchical, leaves the pool with
\* exactly max_agents slots that carry the proposed roles, and calls chat
\* once more, which runs the fixed architecture and nests no deeper.
C30_AutoFixes ==
    /\ C30_AutoStructure
    /\ (mgr.frames /= <<>> /\ AutoDecided(mgr.frames[1])) =>
           LET agents == mgr.sessions[mgr.frames[1].sid].agents
               proposal == mgr.frames[1].calls[2]
               parsed == ParseRoles(proposal.reply)
           IN  /\ Len(agents) = mgr.config.max_agents
               /\ proposal.ok => /\ parsed.match
                                 /\ Len(parsed.roles) = Len(agents)
                                 /\ \A i \in 1..Len(agents) : agents[i].role = parsed.roles[i]


(***************************************************************************)
(* Properties of reassign_roles                                            *)
(***************************************************************************)
\* the tools the table grants a role: those of every keyword found in the
\* lower-cased name
TableTools(role) == UNION {skill_map[k] : k \in KeywordsIn(LowerRole(role))}

\* C31: after reassign_roles(new_roles) the session has exactly
\* min(len(new_roles), 10) slots, slot i carries new_roles[i] and exactly
\* whiteboard_update plus the tools of every table keyword contained in the
\* lower-cased role; a slot beyond the list is an observer without permissions.
C31_Reassigned ==
    (slots.pc /= "idle" /\ slots.last.op = "reassign_roles") =>
        LET new_roles == slots.last.new_roles
        IN  /\ Len(slots.agents) = Min(Len(new_roles), SlotCap)
            /\ \A i \in 1..Len(slots.agents) :
                   IF i <= Len(new_roles)
                   THEN /\ slots.agents[i].role = new_roles[i]
                        /\ slots.agents[i].skills = {"whiteboard_update"} \cup TableTools(new_roles[i])
                   ELSE /\ slots.agents[i].role = "observer"
                        /\ slots.agents[i].skills = {}

\* a session of eleven slots was given two mixed-case roles
C31_Witness ==
    /\ slots.pc /= "idle" /\ slots.last.op = "reassign_roles"
    /\ slots.calls = 1
    /\ slots.last.new_roles = <<"Data Analyst", "code reviewer">>
    /\ Len(slots.agents) = 2
    /\ slots.agents[1].skills = {"whiteboard_update", "python_exec", "web_search", "browser_read"}


(***************************************************************************)
(* Properties of clear(preserve_core=True)                                 *)
(***************************************************************************)
\* what a step that ends in clear(preserve_core=True) does to the whiteboard
C32_Step ==
    wbLast'.op = "clear_preserve" =>
        /\ \A k \in core_keys : k \in DOMAIN data' /\ data'[k] = data[k]
        /\ DOMAIN data' = core_keys \cup {"qmd_candidates"}
        /\ data'["qmd_candidates"] = ListV(<<>>)

\* C32: clear(preserve_core=True) leaves the values of the nine preserved
\* core-frame keys unchanged, removes every other key, and leaves
\* qmd_candidates present as an empty list.
C32_ClearPreservesCore == [][C32_Step]_vars

\* a clear that dropped a per-round result and a non-empty candidate list and
\* kept a rewritten execution_plan
C32_Witness ==
    /\ wbLast.op = "clear_preserve"
    /\ wbLast.dropped = {"qmd_candidates", "result_planner_r0"}
    /\ data["execution_plan"] = IntV(1)
    /\ data["loop_counter"] = StrV("DONE")


(***************************************************************************)
(* Properties of the four phases of chat                                   *)
(***************************************************************************)
FourPhases == <<"boot", "execute", "consolidate", "interpret">>

IsPrefix(p, q) == Len(p) <= Len(q) /\ SubSeq(q, 1, Len(p)) = p

\* the phases of the call run so far are the four phases, each once and in
\* order, and all four have run once the call has returned
PhasesOnceInOrder ==
    /\ IsPrefix(mgr.phases, FourPhases)
    /\ mgr.last.status = "returned" => mgr.phases = FourPhases

\* what holds of every call that does not go through the auto flow
C33_PhasesOfFixedFlows ==
    (mgr.chats > 0 /\ mgr.config.architecture /= "auto") => PhasesOnceInOrder

\* C33: within one chat() call each of the four phases runs exactly once, in
\* the order boot, architecture execution, consolidation, interpretation,
\* for every architecture, auto included.
C33_FourPhasesOnce == mgr.chats > 0 => PhasesOnceInOrder


(***************************************************************************)
(* SpecCkpt: one session's whiteboard and its checkpoint file.  Chat calls *)
(* boot, let the agents write any key, and consolidate; between calls the  *)
(* process may end, which loses the session but not the file.              *)
(***************************************************************************)
\* bound on the number of chat calls
MaxCkChats == 2
\* bound on the number of whiteboard_update tool calls
MaxCkWrites == 2
\* bound on the number of process restarts
MaxCkRestarts == 1

\* the session id the file name is built from
CkSid == "s1"

\* keys the agents write: two preserved core keys, the candidates, a transient key
CkKeys == {"loop_counter", "execution_plan", "qmd_candidates", "result_planner_r0"}
\* values the agents write (the tool passes what the model's JSON arguments hold)
CkValues == {StrV("DONE"), MapV({"step"}), ListV(<<IntV(7)>>)}

\* the failing step of a consolidation, if any
CkFaults == {"none", "log", "checkpoint", "checkpoint_torn"}

\* the checkpoint files on disk, as the dict boot reads them from
CkFiles(c) == IF c.has_file THEN DictSet(EmptyDict, CkSid, c.file) ELSE EmptyDict

CkOthers ==
    UNCHANGED <<data, wbLast, smv, qmd, qmdLast, conc, mgr, lfs, slots, workspace, htg, mix>>

\* manager.py lines 143-146: get_session creates the session when the process
\* does not hold it, then _boot_swarm_context runs
CkBoot ==
    /\ ckp.phase = "idle"
    /\ ckp.chats < MaxCkChats
    /\ LET wb == IF ckp.live THEN ckp.wb ELSE MemoryMap_init
       IN  ckp' = [ckp EXCEPT
                     !.live = TRUE, !.phase = "run", !.chats = @ + 1,
                     !.wb = boot_swarm_context(wb, CkFiles(ckp), CkSid),
                     !.last = [op |-> "boot", fresh |-> ~ckp.live, snap |-> wb]]
    /\ CkOthers

\* tools/adapter.py lines 458-467: an agent's whiteboard_update tool call
CkAgentWrite(key, value) ==
    /\ ckp.phase = "run"
    /\ ckp.writes < MaxCkWrites
    /\ ckp' = [ckp EXCEPT !.wb = MemoryMap_update(@, key, value), !.writes = @ + 1,
                          !.last = [op |-> "update", fresh |-> FALSE, snap |-> ckp.wb]]
    /\ CkOthers

\* manager.py lines 171-181 and 461-483: _persist_log writes the checkpoint
\* from its copy of the whiteboard unless an earlier step of it failed; then
\* the whiteboard is cleared
CkConsolidate(fault) ==
    /\ ckp.phase = "run"
    /\ LET whiteboard_data == ckp.wb
       IN  ckp' = [ckp EXCEPT
                     !.phase = "idle",
                     !.has_file = IF fault \in {"log", "checkpoint"} THEN @
                                  ELSE fault /= "checkpoint_torn",
                     !.file = IF fault \in {"log", "checkpoint"} THEN @
                              ELSE IF fault = "checkpoint_torn" THEN EmptyDict
                              ELSE CheckpointOf(whiteboard_data),
                     !.wb = MemoryMap_clear(@, TRUE),
                     !.last = [op |-> "consolidate_" \o fault, fresh |-> FALSE,
                               snap |-> whiteboard_data]]
    /\ CkOthers

\* the process ends: the session is gone, the file stays
CkRestart ==
    /\ ckp.phase = "idle" /\ ckp.live
    /\ ckp.restarts < MaxCkRestarts
    /\ ckp' = [ckp EXCEPT !.live = FALSE, !.wb = EmptyDict, !.restarts = @ + 1,
                          !.last = [op |-> "restart", fresh |-> FALSE, snap |-> EmptyDict]]
    /\ CkOthers

InitCkpt ==
    /\ ckp = [pc |-> "run", live |-> FALSE, wb |-> EmptyDict, has_file |-> FALSE,
              file |-> EmptyDict, phase |-> "idle", chats |-> 0, writes |-> 0,
              restarts |-> 0, last |-> [op |-> "init", fresh |-> FALSE, snap |-> EmptyDict]]
    /\ data = Idle /\ wbLast = Idle /\ smv = Idle /\ qmd = Idle /\ qmdLast = Idle
    /\ conc = Idle /\ mgr = Idle /\ lfs = Idle /\ slots = Idle /\ workspace = Idle
    /\ htg = Idle /\ mix = Idle

NextCkpt ==
    \/ CkBoot
    \/ \E key \in CkKeys, value \in CkValues : CkAgentWrite(key, value)
    \/ \E fault \in CkFaults : CkConsolidate(fault)
    \/ CkRestart

SpecCkpt == InitCkpt /\ [][NextCkpt]_vars

(***************************************************************************)
(* Properties of the checkpoint                                            *)
(***************************************************************************)
\* the checkpoint just written holds exactly the preserved core keys, with
\* the values the whiteboard had when the consolidation started
CheckpointIsCoreSnapshot ==
    ckp.last.op = "consolidate_none" =>
        /\ ckp.has_file
        /\ DOMAIN ckp.file = core_keys
        /\ \A k \in core_keys : ckp.file[k] = ckp.last.snap[k]

\* a boot in a fresh process restores every checkpointed key other than the
\* two it then rewrites; without a readable file the fresh frame stays
FreshBootRestores ==
    (ckp.last.op = "boot" /\ ckp.last.fresh) =>
        \A k \in core_keys \ {"loop_counter", "current_state"} :
            ckp.wb[k] = IF ckp.has_file THEN ckp.file[k] ELSE core_defaults[k]

\* the parts of C34 about what is written and what is restored
C34_SnapshotAndRestore == CheckpointIsCoreSnapshot /\ FreshBootRestores

\* C34: the checkpoint holds only core-frame keys with their values as of the
\* consolidation, and a boot of the session in a fresh process restores every
\* one of them, then increments loop_counter and sets current_state to
\* PLANNING; without a readable checkpoint the fresh frame stays in place.
C34_CheckpointRoundTrip ==
    /\ C34_SnapshotAndRestore
    /\ (ckp.last.op = "boot" /\ ckp.last.fresh) =>
           /\ ckp.wb["current_state"] = StrV("PLANNING")
           /\ ckp.wb["loop_counter"] =
                  IF ckp.has_file
                  THEN [ckp.file["loop_counter"] EXCEPT !.n = @ + 1]
                  ELSE IntV(1)


(***************************************************************************)
(* Properties of the failures inside consolidation                         *)
(***************************************************************************)
\* the contents of the candidates the promotion rule selects, in list order
PromotableContents(candidates) ==
    LET indices == PromotedIndices(candidates)
    IN  [k \in 1..Len(indices) |-> candidates[indices[k]].content]

\* the consolidation just run wrote the checkpoint of the session
CheckpointWritten ==
    /\ Top.sid \in DOMAIN mgr.ckpt
    /\ mgr.ckpt[Top.sid] = DictRestrict(Sess.whiteboard, core_keys)

\* the consolidation just run cleared the whiteboard
WhiteboardCleared ==
    /\ DOMAIN Sess.whiteboard = DOMAIN core_defaults
    /\ Sess.whiteboard["qmd_candidates"] = ListV(<<>>)

\* the recoveries the code does make: the clear runs whatever failed, a failed
\* insert does not stop the checkpoint write, a failed checkpoint write
\* comes after the promotion
C35_RecoveredSteps ==
    Consolidated =>
        /\ WhiteboardCleared
        /\ Top.pfault = "insert" => CheckpointWritten
        /\ Top.pfault \in {"checkpoint", "checkpoint_torn"} =>
               Top.added = PromotableContents(Top.candidates)

\* C35: a failure of the log append, of one candidate's insert, or of the
\* checkpoint write does not prevent the other consolidation steps of the
\* call: the remaining candidates' promotion, the checkpoint write, the clear.
C35_StepwiseRecovery ==
    /\ C35_RecoveredSteps
    /\ Consolidated =>
        /\ Top.pfault = "log" =>
               CheckpointWritten /\ Top.added = PromotableContents(Top.candidates)
        /\ Top.pfault = "insert" =>
               Top.added = Tail(PromotableContents(Top.candidates))


(***************************************************************************)
(* Properties of the long-term store's collections                         *)
(***************************************************************************)
\* no name has two rows
OnePerName(collections) ==
    \A i, j \in 1..Len(collections) : collections[i] = collections[j] => i = j

\* a step keeps every collection row and every document, and names stay unique
C36_KeptStep ==
    /\ IsPrefix(qmd.collections, qmd'.collections)
    /\ IsPrefix(qmd.documents, qmd'.documents)
    /\ OnePerName(qmd'.collections)

\* what holds of every operation: no collection or document is ever removed
\* and there is never more than one collection per name
C36_NeverDeleted == [][C36_KeptStep]_vars

\* a step creates a collection only by an add that names it, and a search
\* changes nothing
C36_Step ==
    /\ C36_KeptStep
    /\ qmd'.collections /= qmd.collections =>
           /\ qmdLast'.op = "add"
           /\ qmd'.collections = Append(qmd.collections, qmdLast'.collection)
    /\ qmdLast'.op = "search" => qmd' = qmd

\* C36: a collection comes into existence only on the first add that names
\* it, there is never more than one collection per name, no operation deletes
\* a collection, and search, with or without a collection argument, leaves
\* the collections and documents unchanged.
C36_LazyCollections == [][C36_Step]_vars


(***************************************************************************)
(* Properties of the promotion of candidates across calls                  *)
(***************************************************************************)
\* the most entries of one written candidate list that the promotion rule selects
PromotablePerWrite ==
    CHOOSE n \in 0..3 :
        /\ \A candidates \in CandidateLists : Len(PromotedIndices(candidates)) <= n
        /\ \E candidates \in CandidateLists : Len(PromotedIndices(candidates)) = n

\* C37: a qmd_candidates entry is promoted at most once: after a chat call
\* the whiteboard holds exactly the ten core-frame keys with qmd_candidates
\* empty, the checkpoint carries no candidates, and so the long-term store
\* never holds more documents than the agents' writes offered for promotion.
C37_PromotedOnce ==
    /\ \A sid \in DOMAIN mgr.ckpt : "qmd_candidates" \notin DOMAIN mgr.ckpt[sid]
    /\ (mgr.frames = <<>> /\ mgr.last.status = "returned"
          /\ mgr.last.sid \in DOMAIN mgr.sessions) =>
           /\ DOMAIN mgr.sessions[mgr.last.sid].whiteboard = DOMAIN core_defaults
           /\ mgr.sessions[mgr.last.sid].whiteboard["qmd_candidates"] = ListV(<<>>)
    /\ Len(mgr.ltm.documents) <= mgr.writes * PromotablePerWrite
    /\ (Consolidated /\ mgr.writes = 0) => Top.candidates = <<>>

\* the second call of a session consolidated without candidates after the
\* first call had promoted one
C37_Witness ==
    /\ mgr.chats = 2 /\ Consolidated /\ ~Top.wrote
    /\ Top.candidates = <<>>
    /\ mgr.writes = 1
    /\ Len(mgr.ltm.documents) = 1
    /\ Len(mgr.consolidations[Top.sid]) = 2


(***************************************************************************)
(* Properties of the rounds on the pool                                    *)
(***************************************************************************)
\* the slots whose invocation of the current round has started
StartedThisRound == {i \in 1..Len(conc.agents) : conc.task[i] /= "queued"}

\* the barrier itself: an invocation of the current round has started only
\* after every slot was invoked in each earlier round and those results were
\* collected, and consensus follows the collection of the last round
C38_Barrier ==
    conc.pc /= "idle" =>
        /\ \A i \in 1..Len(conc.agents) :
               conc.invoked[i] = IF i \in StartedThisRound THEN conc.r + 1 ELSE conc.r
        /\ \A k \in 1..Len(conc.history_acc) : conc.history_acc[k].round <= conc.r
        /\ \A i \in 1..Len(conc.agents), q \in 0..(conc.r - 1) :
               <<i, q>> \notin conc.failed =>
                   \E k \in 1..Len(conc.history_acc) :
                       conc.history_acc[k].slot = i /\ conc.history_acc[k].round = q
        /\ conc.pc = "consensus" => ConcAllCollected /\ conc.r = conc.rounds - 1

\* C38: rounds are separated by a barrier: every invocation of round r has
\* finished and been collected before any invocation of round r+1 starts,
\* each round-(r+1) prompt is built only from results collected in earlier
\* rounds, and consensus starts only after the last round has finished.
C38_RoundBarrier ==
    /\ C38_Barrier
    /\ conc.pc /= "idle" =>
           \A i \in StartedThisRound :
               \A k \in 1..Len(conc.seen[i]) : conc.seen[i][k].round < conc.r


(***************************************************************************)
(* Well-formed task graphs                                                 *)
(***************************************************************************)
TaskIds == {htg.tasks[i].id : i \in 1..Len(htg.tasks)}

\* the ids the tasks with an id in ids depend on directly
DepsOf(ids) ==
    UNION {{htg.tasks[i].dependencies[k] : k \in 1..Len(htg.tasks[i].dependencies)} :
              i \in {j \in 1..Len(htg.tasks) : htg.tasks[j].id \in ids}}

\* the ids reached from ids along at most n dependency edges
RECURSIVE Behind(_, _)
Behind(ids, n) == IF n = 0 THEN {} ELSE DepsOf(ids) \cup Behind(DepsOf(ids), n - 1)

\* no task depends on itself, directly or transitively
Acyclic == \A id \in TaskIds : id \notin Behind({id}, Len(htg.tasks))

\* every dependency id names a task of the graph
Closed == DepsOf(TaskIds) \subseteq TaskIds

WellFormedGraph == htg.pc /= "idle" /\ Acyclic /\ Closed

RunsOf(id) == {j \in 1..Len(htg.runs) : htg.runs[j].id = id}

AllCompleted ==
    \A i \in 1..Len(htg.tasks) :
        htg.tasks[i].status = "completed" /\ Cardinality(RunsOf(htg.tasks[i].id)) = 1

\* on a well-formed graph no task is run twice, every scan runs a task, the
\* scans stay within the task count, and a return leaves every task completed
C39_WellFormedRun ==
    WellFormedGraph =>
        /\ \A id \in TaskIds : Cardinality(RunsOf(id)) <= 1
        /\ htg.idle_scans = 0
        /\ htg.cycles <= Len(htg.tasks)
        /\ htg.pc \in {"while", "for", "done", "raised"} =>
               htg.cycles <= htg.max_cycles /\ (htg.tasks /= <<>> => htg.cycles < htg.max_cycles)
        /\ htg.pc = "done" => AllCompleted
        /\ htg.pc = "raised" =>
               \A i \in 1..Len(htg.tasks) :
                   htg.tasks[i].status = IF htg.tasks[i].id \in htg.completed
                                         THEN "completed" ELSE "pending"

====
